---- MODULE Spec2Model ----
(***************************************************************************)
(* PHIVOLCS earthquake monitor: the poll loop of main() and the helpers it *)
(* calls (identity resolution, change classification, geo threshold,       *)
(* retention), modelled from src/unnamed/part_001 lines 886-1573.          *)
(*                                                                         *)
(* Encoding of Go values                                                   *)
(*   text      a sequence of one-character strings, <<"4", ".", "6">>      *)
(*   DateTime  an integer: n >= 0 is the text of instant n (in seconds) in *)
(*             DATE_TIME_LAYOUT, which time.Parse accepts; n < 0 is a text *)
(*             time.Parse rejects (EmptyText is "", BadDateText another)   *)
(*   float64   fixed point, two decimals (4.5 is 450, 110 km is 11000)     *)
(*   Bulletin  [stamp, tail]: the UTC instant the URL's yyyy_mmdd_hhmmss   *)
(*             group encodes (NoStamp when the URL has none) and the       *)
(*             tokens that follow it; NoBulletin is the empty text         *)
(*   map       a function from keys to Quakes; iteration order is free     *)
(***************************************************************************)
EXTENDS Integers, Sequences, FiniteSets, TLC

\* ------------------------------------------------------------------ bounds
\* rows of the scraped table in one poll
MaxRows == 2

\* the largest tolerance, in minutes, the Temporal Key Matcher is applied with
MaxDelta == 4

\* ------------------------------------------------------- program constants
DEFAULT_REF_POINT_LAT == 1032
DEFAULT_REF_POINT_LON == 12390
DEFAULT_REF_RADIUS_KM == 11000
DEFAULT_MAX_ROWS == 500
GLOBAL_MAG_THRESH == 450
LOCAL_MAG_THRESH == 400
SIMILAR_Q_ORIGIN_THRESH == 60
SIMILAR_Q_MIN_DELTA_THRESH == 3
\* postToMatrix: attempt <= 5
SendAttempts == 5
earthRadiusKm == 6371
\* time.Minute, in seconds
Minute == 60
\* the 8 hours extractDateTimeFromURL adds to the UTC instant of the URL
UtcOffset == 8 * 3600
\* now.AddDate(0, -2, 0): the two calendar months before the modelled now
TwoMonths == 61 * 86400

\* -------------------------------------------------------------------- text
EmptyText == 0 - 1
BadDateText == 0 - 2
NoStamp == 0 - 1

Digits == {"0", "1", "2", "3", "4", "5", "6", "7", "8", "9"}

DigitVal(c) ==
  CASE c = "0" -> 0 [] c = "1" -> 1 [] c = "2" -> 2 [] c = "3" -> 3
    [] c = "4" -> 4 [] c = "5" -> 5 [] c = "6" -> 6 [] c = "7" -> 7
    [] c = "8" -> 8 [] c = "9" -> 9

Max(a, b) == IF a >= b THEN a ELSE b
Min(a, b) == IF a <= b THEN a ELSE b
Abs(a) == IF a < 0 THEN -a ELSE a

Range(f) == {f[x] : x \in DOMAIN f}

\* the value of a run of decimal digits
RECURSIVE DigitsVal(_)
DigitsVal(s) ==
  IF s = <<>> THEN 0
  ELSE 10 * DigitsVal(SubSeq(s, 1, Len(s) - 1)) + DigitVal(s[Len(s)])

\* strconv.ParseFloat(s, 64) on the texts of the model: an optional sign, digits
\* with at most one point and at most two decimals (the alphabet of the model has
\* no exponent, hex, underscore, inf or nan forms).  The value is in hundredths.
ParseFloat(s) ==
  LET neg == s # <<>> /\ s[1] = "-"
      body == IF s # <<>> /\ s[1] \in {"-", "+"} THEN Tail(s) ELSE s
      dots == {i \in 1..Len(body) : body[i] = "."}
      dot == IF dots = {} THEN Len(body) + 1 ELSE CHOOSE i \in dots : TRUE
      ip == SubSeq(body, 1, dot - 1)
      fp == SubSeq(body, dot + 1, Len(body))
      wellFormed == /\ Cardinality(dots) <= 1
                    /\ Len(ip) + Len(fp) >= 1
                    /\ Len(fp) <= 2
                    /\ \A i \in 1..Len(body) : i # dot => body[i] \in Digits
      frac == IF Len(fp) = 0 THEN 0
              ELSE IF Len(fp) = 1 THEN 10 * DigitVal(fp[1])
              ELSE DigitsVal(fp)
      mag == 100 * DigitsVal(ip) + frac
  IN IF wellFormed THEN [ok |-> TRUE, val |-> IF neg THEN -mag ELSE mag]
     ELSE [ok |-> FALSE, val |-> 0]

\* getEnvFloat on the text of the variable, "" when it is not set
getEnvFloat(val, defaultVal) ==
  IF val = <<>> THEN defaultVal
  ELSE IF ~ParseFloat(val).ok \/ ParseFloat(val).val <= 0 THEN defaultVal
  ELSE ParseFloat(val).val

\* parseMag: the error of ParseFloat is dropped, the value is then 0
parseMag(m) == ParseFloat(m).val

\* time.Parse(DATE_TIME_LAYOUT, text)
ParseTime(dt) == [ok |-> dt >= 0, t |-> IF dt >= 0 THEN dt ELSE 0]

\* strings.Index(s, sub): the first position (from 1) where sub occurs, 0 if none
Index(s, sub) ==
  LET hits == {i \in 1..(Len(s) - Len(sub) + 1) : SubSeq(s, i, i + Len(sub) - 1) = sub}
  IN IF hits = {} THEN 0 ELSE CHOOSE i \in hits : \A j \in hits : i <= j

\* strings.TrimSpace on texts whose only white space is " "
RECURSIVE TrimSpace(_)
TrimSpace(s) ==
  IF s = <<>> THEN s
  ELSE IF s[1] = " " THEN TrimSpace(Tail(s))
  ELSE IF s[Len(s)] = " " THEN TrimSpace(SubSeq(s, 1, Len(s) - 1))
  ELSE s

\* extractOrigin cutting at the last "of " instead of the first
extractOriginLast(fullLoc) ==
  LET hits == {i \in 1..(Len(fullLoc) - 2) : SubSeq(fullLoc, i, i + 2) = <<"o", "f", " ">>}
      start == IF hits = {} THEN 0 ELSE CHOOSE i \in hits : \A j \in hits : i >= j
  IN IF start # 0 THEN TrimSpace(SubSeq(fullLoc, start + 3, Len(fullLoc)))
     ELSE fullLoc

\* extractOrigin: the text after the first "of ", trimmed; the text itself if none
extractOrigin(fullLoc) ==
  LET start == Index(fullLoc, <<"o", "f", " ">>)
  IN IF start # 0 THEN TrimSpace(SubSeq(fullLoc, start + 3, Len(fullLoc)))
     ELSE fullLoc

\* ------------------------------------------------------------------ state
VARIABLES
  config,              \* the package variables read from the environment
  now,                 \* time.Now(), seconds
  cacheFile,           \* last_quakes.json: [ok, quakes]
  postedFile,          \* posted_quakes.json: [ok, quakes]
  pc,                  \* the position of main in its loop
  latestQuakes,        \* main: the parsed batch
  lastFetchQuakes,     \* main: map of the last poll, by quakeOriginKey
  postedQuakes,        \* main: map of the notified quakes, by quakeLocationKey
  idx,                 \* main: the index of the range loop over latestQuakes
  changed,             \* main: the new quakes of this cycle
  updated,             \* main: the revised quakes of this cycle, <<New, Old>>
  postedQuakesToSave,  \* main: what is written to posted_quakes.json
  previousQuake,       \* main: the match of the quake handled last
  updateExists,        \* main: whether the quake handled last has a match
  sendIdx,             \* main: the index i of the two send loops
  sent,                \* the postToMatrix calls of this cycle, in order
  prevNew,             \* history: the quakes `changed` held in the cycle before
  probe,               \* an operator application: [op, in, out]
  post                 \* the postToMatrix call in progress: [state, attempt, done, slept, err]

vars == <<config, now, cacheFile, postedFile, pc, latestQuakes, lastFetchQuakes,
          postedQuakes, idx, changed, updated, postedQuakesToSave, previousQuake,
          updateExists, sendIdx, sent, prevNew, probe, post>>

\* the variables of main and of the environment it reads
loopVars == <<config, now, cacheFile, postedFile, pc, latestQuakes, lastFetchQuakes,
              postedQuakes, idx, changed, updated, postedQuakesToSave, previousQuake,
              updateExists, sendIdx, sent, prevNew>>

\* ------------------------------------------------------ Geo-Threshold Policy
\* Haversine distance, in hundredths of a km, for coordinates in hundredths of a
\* degree.  On one meridian (dLon = 0) a = sin^2(dLat/2) and
\* 2 * atan2(sqrt(a), sqrt(1-a)) = |dLat|, so the distance is R * |dLat| * Pi/180;
\* Pi is 355/113.  The longitudes of the model are those of the reference point.
distanceKm(lat1, lon1, lat2, lon2) ==
  CASE lon1 = lon2 -> (earthRadiusKm * Abs(lat2 - lat1) * 355) \div (113 * 180)

\* magnitudeThresholdFor with < in place of <=
magnitudeThresholdForStrict(latStr, lonStr) ==
  LET lat == ParseFloat(latStr)
      lon == ParseFloat(lonStr)
  IN IF ~lat.ok \/ ~lon.ok THEN GLOBAL_MAG_THRESH
     ELSE IF distanceKm(lat.val, lon.val, config.refPointLat, config.refPointLon)
               < config.refRadiusKm
          THEN LOCAL_MAG_THRESH
          ELSE GLOBAL_MAG_THRESH

magnitudeThresholdFor(latStr, lonStr) ==
  LET lat == ParseFloat(latStr)
      lon == ParseFloat(lonStr)
  IN IF ~lat.ok \/ ~lon.ok THEN GLOBAL_MAG_THRESH
     ELSE IF distanceKm(lat.val, lon.val, config.refPointLat, config.refPointLon)
               <= config.refRadiusKm
          THEN LOCAL_MAG_THRESH
          ELSE GLOBAL_MAG_THRESH

\* ------------------------------------------------------------------ records
NoBulletin == [stamp |-> NoStamp, tail |-> <<>>]

\* the zero value of Quake
ZeroQuake ==
  [DateTime |-> EmptyText, Latitude |-> <<>>, Longitude |-> <<>>, Depth |-> <<>>,
   Magnitude |-> <<>>, Location |-> <<>>, Origin |-> <<>>, Bulletin |-> NoBulletin]

\* quakeChanged comparing the magnitudes as numbers
quakeChangedNumeric(a, b) ==
  \/ parseMag(a.Magnitude) # parseMag(b.Magnitude)
  \/ a.Depth # b.Depth
  \/ a.Location # b.Location
  \/ a.Latitude # b.Latitude
  \/ a.Longitude # b.Longitude
  \/ a.Bulletin # b.Bulletin

quakeChanged(a, b) ==
  \/ a.Magnitude # b.Magnitude
  \/ a.Depth # b.Depth
  \/ a.Location # b.Location
  \/ a.Latitude # b.Latitude
  \/ a.Longitude # b.Longitude
  \/ a.Bulletin # b.Bulletin

\* DateTime + "|" + Location: a pair, as no text of the model holds a "|"
quakeLocationKey(q) == <<q.DateTime, q.Location>>

quakeOriginKey(q) == <<q.DateTime, q.Origin>>

\* the regexp _B(\d)F?\.html$ on the tokens of the URL: one digit only
getBulletinNumber(url) ==
  LET t == url.tail
      n == Len(t)
      plain == n >= 3 /\ t[n] = ".html" /\ t[n - 1] \in Digits /\ t[n - 2] = "_B"
      final == /\ n >= 4 /\ t[n] = ".html" /\ t[n - 1] = "F"
               /\ t[n - 2] \in Digits /\ t[n - 3] = "_B"
  IN IF plain THEN [num |-> DigitVal(t[n - 1]), ok |-> TRUE]
     ELSE IF final THEN [num |-> DigitVal(t[n - 2]), ok |-> TRUE]
     ELSE [num |-> 0, ok |-> FALSE]

\* ------------------------------------------------------ Temporal Key Matcher
\* sameDateAndTimeHMWithDelta taking two equal texts for a match before parsing
sameDateAndTimeHMWithDeltaTextual(t1, t2, delta) ==
  IF t1 = t2 THEN TRUE
  ELSE /\ ParseTime(t1).ok /\ ParseTime(t2).ok
       /\ Abs(ParseTime(t1).t - ParseTime(t2).t) <= delta * Minute

\* sameDateAndTimeHMWithDelta comparing the difference truncated to whole minutes
sameDateAndTimeHMWithDeltaTruncating(t1, t2, delta) ==
  /\ ParseTime(t1).ok /\ ParseTime(t2).ok
  /\ Abs(ParseTime(t1).t - ParseTime(t2).t) \div Minute <= delta

sameDateAndTimeHMWithDelta(t1, t2, delta) ==
  LET d1 == ParseTime(t1)
      d2 == ParseTime(t2)
  IN IF ~d1.ok \/ ~d2.ok THEN FALSE
     ELSE Abs(d1.t - d2.t) <= delta * Minute

sameDateAndTimeHM(t1, t2) == sameDateAndTimeHMWithDelta(t1, t2, 0)

isRevisedQuake(currentQuake, pastQ) ==
  LET curr == getBulletinNumber(currentQuake.Bulletin)
      past == getBulletinNumber(pastQ.Bulletin)
  IN IF ~curr.ok \/ ~past.ok THEN FALSE
     ELSE /\ sameDateAndTimeHM(currentQuake.DateTime, pastQ.DateTime)
          /\ pastQ.Origin = currentQuake.Origin
          /\ curr.num > past.num

filterQuakesByDateTime(quakes, target) ==
  LET Near(q) == sameDateAndTimeHMWithDelta(q.DateTime, target, SIMILAR_Q_MIN_DELTA_THRESH)
  IN SelectSeq(quakes, Near)

isKnownBulletin(currentQuake, pastQ) ==
  /\ sameDateAndTimeHM(currentQuake.DateTime, pastQ.DateTime)
  /\ currentQuake.Bulletin = pastQ.Bulletin

\* ------------------------------------------------------ Fuzzy Address Matcher
Lower(c) ==
  CASE c = "A" -> "a" [] c = "B" -> "b" [] c = "C" -> "c" [] c = "D" -> "d"
    [] c = "E" -> "e" [] c = "N" -> "n" [] c = "S" -> "s" [] c = "W" -> "w"
    [] OTHER -> c

Punctuation == {",", ".", "-", "(", ")", "'"}

\* lowercase, punctuation to white space
RECURSIVE Clean(_)
Clean(s) ==
  IF s = <<>> THEN <<>>
  ELSE <<IF s[1] \in Punctuation THEN " " ELSE Lower(s[1])>> \o Clean(Tail(s))

\* strings.Fields: the maximal runs without white space
RECURSIVE Fields(_)
Fields(s) ==
  IF s = <<>> THEN <<>>
  ELSE IF s[1] = " " THEN Fields(Tail(s))
  ELSE LET spaces == {i \in 1..Len(s) : s[i] = " "}
           stop == IF spaces = {} THEN Len(s) + 1
                   ELSE CHOOSE i \in spaces : \A j \in spaces : i <= j
       IN <<SubSeq(s, 1, stop - 1)>> \o Fields(SubSeq(s, stop, Len(s)))

Abbreviation(tok) ==
  CASE tok = <<"s", "t">> -> <<"s", "t", "r", "e", "e", "t">>
    [] tok = <<"b", "r", "g", "y">> -> <<"b", "a", "r", "a", "n", "g", "a", "y">>
    [] tok = <<"b", "l", "k">> -> <<"b", "l", "o", "c", "k">>
    [] tok = <<"p", "h">> -> <<"p", "h", "a", "s", "e">>
    [] tok = <<"a", "v", "e">> -> <<"a", "v", "e", "n", "u", "e">>
    [] tok = <<"r", "d">> -> <<"r", "o", "a", "d">>
    [] tok = <<"s", "u", "b", "d">> ->
         <<"s", "u", "b", "d", "i", "v", "i", "s", "i", "o", "n">>
    [] OTHER -> tok

RECURSIVE ConcatExpanded(_)
ConcatExpanded(toks) ==
  IF toks = <<>> THEN <<>>
  ELSE Abbreviation(toks[1]) \o ConcatExpanded(Tail(toks))

NormalizeAddress(s) == ConcatExpanded(Fields(Clean(s)))

\* one row of the edit-distance table: cell j+1 is the distance between the
\* first i characters of a (c is the i-th) and the first j characters of b
RECURSIVE LevCells(_, _, _, _)
LevCells(prev, c, b, acc) ==
  LET j == Len(acc)
  IN IF j > Len(b) THEN acc
     ELSE LevCells(prev, c, b,
            Append(acc, Min(Min(prev[j + 1] + 1, acc[j] + 1),
                            prev[j] + (IF c = b[j] THEN 0 ELSE 1))))

RECURSIVE LevRows(_, _, _, _)
LevRows(a, b, i, prev) ==
  IF i > Len(a) THEN prev[Len(b) + 1]
  ELSE LevRows(a, b, i + 1, LevCells(prev, a[i], b, <<prev[1] + 1>>))

Levenshtein(a, b) == LevRows(a, b, 1, [j \in 1..(Len(b) + 1) |-> j - 1])

\* (1 - distance/max(len)) * 100, rounded down; 100 when both are empty
AddressSimilarity(a, b) ==
  LET na == NormalizeAddress(a)
      nb == NormalizeAddress(b)
      m == Max(Len(na), Len(nb))
  IN IF m = 0 THEN 100 ELSE ((m - Levenshtein(na, nb)) * 100) \div m

\* ------------------------------------------------------ Retention & Ordering
\* t.Before(now.AddDate(0, -2, 0))
Stale(q) == ParseTime(q.DateTime).ok /\ ParseTime(q.DateTime).t < now - TwoMonths

\* the map after mapEqToSlice: the stale entries are deleted from the argument
\* itself (delete(m, k)); entries whose DateTime does not parse stay
MapAfterPrune(m) == [k \in {k \in DOMAIN m : ~Stale(m[k])} |-> m[k]]

\* Kept without the test of age
KeptParseable(m) == {m[k] : k \in {k \in DOMAIN m : ParseTime(m[k].DateTime).ok}}

\* the entries mapEqToSlice appends to its result
Kept(m) == {m[k] : k \in {k \in DOMAIN m : ParseTime(m[k].DateTime).ok /\ ~Stale(m[k])}}

\* NewestFirst with the comparison of the sort turned around
OldestFirst(s) ==
  \A i, j \in 1..Len(s) : i < j => ParseTime(s[i].DateTime).t <= ParseTime(s[j].DateTime).t

NewestFirst(s) ==
  \A i, j \in 1..Len(s) : i < j => ParseTime(s[i].DateTime).t >= ParseTime(s[j].DateTime).t

\* the slices mapEqToSlice can return: the kept entries, sorted newest first by
\* sort.Slice; entries of one instant come in any order (the range over the map
\* is unordered and the sort is not stable)
mapEqToSlice(m) ==
  LET S == Kept(m)
      n == Cardinality(S)
  IN {s \in [1..n -> S] : (\A i, j \in 1..n : i # j => s[i] # s[j]) /\ NewestFirst(s)}

\* ------------------------------------------------------- Classification Engine
\* updatedQuakeHasBeenPosted comparing the instants only
updatedQuakeHasBeenPostedAnyBulletin(posted, currentQuake) ==
  \E k \in DOMAIN posted : sameDateAndTimeHM(currentQuake.DateTime, posted[k].DateTime)

updatedQuakeHasBeenPosted(posted, currentQuake) ==
  \E k \in DOMAIN posted : isKnownBulletin(currentQuake, posted[k])

\* isCurrentAndPastQSignificant looking at the current quake only
isCurrentQSignificant(currentQuake, prevQuake) ==
  parseMag(currentQuake.Magnitude) >=
    magnitudeThresholdFor(currentQuake.Latitude, currentQuake.Longitude)

isCurrentAndPastQSignificant(currentQuake, prevQuake) ==
  LET thresholdForUpdatedQ == magnitudeThresholdFor(currentQuake.Latitude, currentQuake.Longitude)
      thresholdForOldQ == magnitudeThresholdFor(prevQuake.Latitude, prevQuake.Longitude)
  IN \/ parseMag(currentQuake.Magnitude) >= thresholdForUpdatedQ
     \/ parseMag(prevQuake.Magnitude) >= thresholdForOldQ

\* FirstSimilar comparing the origin of the record with the full location text
\* of the candidate
FirstSimilarByLocation(similarlyTimedQuakes, currentQuake) ==
  LET Accepts(pastQ) ==
        /\ AddressSimilarity(currentQuake.Origin, pastQ.Location) >= SIMILAR_Q_ORIGIN_THRESH
        /\ getBulletinNumber(currentQuake.Bulletin).num > getBulletinNumber(pastQ.Bulletin).num
      hits == {i \in 1..Len(similarlyTimedQuakes) : Accepts(similarlyTimedQuakes[i])}
  IN IF hits = {} THEN 0 ELSE CHOOSE i \in hits : \A j \in hits : i <= j

\* the first entry of the time-filtered slice that is similar enough and has a
\* lower bulletin number; 0 if none
FirstSimilar(similarlyTimedQuakes, currentQuake) ==
  LET Accepts(pastQ) ==
        /\ AddressSimilarity(currentQuake.Origin, pastQ.Origin) >= SIMILAR_Q_ORIGIN_THRESH
        /\ getBulletinNumber(currentQuake.Bulletin).num > getBulletinNumber(pastQ.Bulletin).num
      hits == {i \in 1..Len(similarlyTimedQuakes) : Accepts(similarlyTimedQuakes[i])}
  IN IF hits = {} THEN 0 ELSE CHOOSE i \in hits : \A j \in hits : i <= j

\* the results determinePastQuakeThroughHeuristics can return, one for each
\* iteration order of the map (first loop) and each slice of mapEqToSlice; the
\* second loop runs whatever the first found and overwrites its result
determinePastQuakeThroughHeuristics(lastFetch, currentQuake) ==
  LET revisedOf == {pastQ \in Range(lastFetch) : isRevisedQuake(currentQuake, pastQ)}
      firstLoop == IF revisedOf = {} THEN {[previousQuake |-> ZeroQuake, updateExists |-> FALSE]}
                   ELSE {[previousQuake |-> pastQ, updateExists |-> TRUE] : pastQ \in revisedOf}
      SecondLoop(found, slice) ==
        LET similarlyTimedQuakes == filterQuakesByDateTime(slice, currentQuake.DateTime)
            hit == FirstSimilar(similarlyTimedQuakes, currentQuake)
        IN IF hit = 0 THEN found
           ELSE [previousQuake |-> similarlyTimedQuakes[hit], updateExists |-> TRUE]
  IN {SecondLoop(found, slice) : found \in firstLoop, slice \in mapEqToSlice(lastFetch)}

\* ResolvePrevious taking the entry of the exact lookup only when its bulletin
\* number is lower, and going on to the heuristics when it is not
ResolvePreviousLowerOnly(lastFetch, currentQuake) ==
  LET updatedQuakeKey == quakeOriginKey(currentQuake)
  IN IF /\ updatedQuakeKey \in DOMAIN lastFetch
        /\ getBulletinNumber(lastFetch[updatedQuakeKey].Bulletin).num
             <= getBulletinNumber(currentQuake.Bulletin).num
     THEN {[previousQuake |-> lastFetch[updatedQuakeKey], updateExists |-> TRUE, heur |-> FALSE]}
     ELSE IF getBulletinNumber(currentQuake.Bulletin).num # 1
     THEN {[previousQuake |-> r.previousQuake, updateExists |-> r.updateExists, heur |-> TRUE] :
             r \in determinePastQuakeThroughHeuristics(lastFetch, currentQuake)}
     ELSE {[previousQuake |-> ZeroQuake, updateExists |-> FALSE, heur |-> FALSE]}

\* main, lines 984-991: the exact lookup, then the heuristics unless the
\* bulletin number is 1; heur tells whether the heuristics ran
ResolvePrevious(lastFetch, currentQuake) ==
  LET updatedQuakeKey == quakeOriginKey(currentQuake)
  IN IF updatedQuakeKey \in DOMAIN lastFetch
     THEN {[previousQuake |-> lastFetch[updatedQuakeKey], updateExists |-> TRUE, heur |-> FALSE]}
     ELSE IF getBulletinNumber(currentQuake.Bulletin).num # 1
     THEN {[previousQuake |-> r.previousQuake, updateExists |-> r.updateExists, heur |-> TRUE] :
             r \in determinePastQuakeThroughHeuristics(lastFetch, currentQuake)}
     ELSE {[previousQuake |-> ZeroQuake, updateExists |-> FALSE, heur |-> FALSE]}

\* IsNewQuake with > in place of >=
IsNewQuakeStrict(posted, currentQuake) ==
  LET mag == ParseFloat(currentQuake.Magnitude)
      threshold == magnitudeThresholdFor(currentQuake.Latitude, currentQuake.Longitude)
  IN /\ quakeLocationKey(currentQuake) \notin DOMAIN posted
     /\ mag.ok
     /\ mag.val > threshold

\* IsNewQuake without the magnitude test
IsNewQuakeAnyMagnitude(posted, currentQuake) ==
  quakeLocationKey(currentQuake) \notin DOMAIN posted

\* main, lines 997-1004: the test that makes an unmatched quake a new one
\* IsNewQuake without the lookup in the Notified Ledger
IsNewQuakeIgnoringLedger(posted, currentQuake) ==
  LET mag == ParseFloat(currentQuake.Magnitude)
      threshold == magnitudeThresholdFor(currentQuake.Latitude, currentQuake.Longitude)
  IN /\ mag.ok
     /\ mag.val >= threshold

IsNewQuake(posted, currentQuake) ==
  LET mag == ParseFloat(currentQuake.Magnitude)
      threshold == magnitudeThresholdFor(currentQuake.Latitude, currentQuake.Longitude)
  IN /\ quakeLocationKey(currentQuake) \notin DOMAIN posted
     /\ mag.ok
     /\ mag.val >= threshold

\* main, lines 1006-1008: the test that makes a matched quake an updated one
IsUpdatedQuake(posted, currentQuake, prevQuake) ==
  /\ quakeChanged(prevQuake, currentQuake)
  /\ ~updatedQuakeHasBeenPosted(posted, currentQuake)
  /\ isCurrentAndPastQSignificant(currentQuake, prevQuake)

\* ---------------------------------------------------------------- the files
\* the JSON text holds the Quakes in order; a text of the model is written and
\* read back unchanged
MissingFile == [ok |-> FALSE, quakes |-> <<>>]

saveAllQuakesToFile(quakes) == [ok |-> TRUE, quakes |-> quakes]

\* keyFunc(q) for the two key functions main passes, named by their names
KeyOf(keyFunc, q) ==
  IF keyFunc = "quakeOriginKey" THEN quakeOriginKey(q) ELSE quakeLocationKey(q)

\* m[key] = q for the quakes of the file in order: a later one overrides
RECURSIVE FillMap(_, _, _)
FillMap(quakes, keyFunc, m) ==
  IF quakes = <<>> THEN m
  ELSE FillMap(Tail(quakes), keyFunc,
         [k \in DOMAIN m \cup {KeyOf(keyFunc, quakes[1])} |->
            IF k = KeyOf(keyFunc, quakes[1]) THEN quakes[1] ELSE m[k]])

\* readAllQuakesFromFile using whatever was decoded, error or not
readAllQuakesFromFilePartial(file, keyFunc) == FillMap(file.quakes, keyFunc, <<>>)

readAllQuakesFromFile(file, keyFunc) ==
  IF ~file.ok THEN <<>> ELSE FillMap(file.quakes, keyFunc, <<>>)

\* ------------------------------------------------------------------ scraper
\* A table row: the number of its cells, the href of the first cell (a Bulletin,
\* NoBulletin when there is none) and the texts of the cells.  The date cell is
\* an integer: n >= 0 is the text of minute n in the table's form
\* "02 January 2006 - 03:04 PM", n < 0 a text in another form.
normalizeDateTime(date) == IF date >= 0 THEN date * Minute ELSE date

extractDateTimeFromURL(url) ==
  IF url.stamp = NoStamp THEN [ok |-> FALSE, text |-> EmptyText]
  ELSE [ok |-> TRUE, text |-> url.stamp + UtcOffset]

\* strings.Join(strings.Fields(s), " ")
RECURSIVE JoinFields(_)
JoinFields(toks) ==
  IF toks = <<>> THEN <<>>
  ELSE IF Len(toks) = 1 THEN toks[1]
  ELSE toks[1] \o <<" ">> \o JoinFields(Tail(toks))

RowToQuake(tr) ==
  LET date == normalizeDateTime(tr.date)
      loc == TrimSpace(JoinFields(Fields(tr.loc)))
      bulletinURL == tr.link
      parsed == extractDateTimeFromURL(bulletinURL)
  IN [DateTime |-> IF bulletinURL # NoBulletin /\ parsed.ok THEN parsed.text ELSE date,
      Latitude |-> TrimSpace(tr.lat),
      Longitude |-> TrimSpace(tr.lon),
      Depth |-> TrimSpace(tr.depth),
      Magnitude |-> TrimSpace(tr.mag),
      Location |-> loc,
      Origin |-> extractOrigin(loc),
      Bulletin |-> bulletinURL]

\* parseFirstN stopping after n records instead of n rows
parseFirstNRecords(doc, n) ==
  LET Full(tr) == tr.cells >= 6
      full == SelectSeq(doc, Full)
  IN [k \in 1..Min(n, Len(full)) |-> RowToQuake(full[k])]

parseFirstN(doc, n) ==
  LET rows == SubSeq(doc, 1, Min(n, Len(doc)))
      Full(tr) == tr.cells >= 6
      full == SelectSeq(rows, Full)
  IN [k \in 1..Len(full) |-> RowToQuake(full[k])]

\* ------------------------------------------------------------------ notifier
\* postToMatrix: whether the call returns an error.  Without the credentials it
\* always does; with them either all attempts fail or one succeeds.
postToMatrix(updatedQuake, isUpdate, oldQuake) ==
  IF ~config.matrixConfigured THEN {TRUE} ELSE {FALSE, TRUE}

\* ------------------------------------------------------------------- inputs
\* the UTC instant in the bulletin URL of the modelled event, a whole minute
T0 == 100000 * Minute
\* the instant of an event of long ago
TOld == 1000 * Minute
\* time.Now() of the modelled polls: a day after T0
Now0 == T0 + 86400 + UtcOffset

Mag30 == <<"3", ".", "0">>
Mag40 == <<"4", ".", "0">>
Mag45 == <<"4", ".", "5">>
Mag46 == <<"4", ".", "6">>
Mag51 == <<"5", ".", "1">>
MagBad == <<"x">>
\* the reference point itself, a point 4.68 degrees north of it, no number
LatRef == <<"1", "0", ".", "3", "2">>
LatFar == <<"1", "5", ".", "0", "0">>
LatBad == <<"x">>
LonRef == <<"1", "2", "3", ".", "9", "0">>
Depth10 == <<"1", "0">>
Depth20 == <<"2", "0">>
LocN == <<"N", " ", "o", "f", " ", "a", "b", "c">>
LocS == <<"S", " ", "o", "f", " ", "a", "b", "c">>
LocD == <<"N", " ", "o", "f", " ", "a", "b", "d">>
LocX == <<"x", "y", "z">>
\* a location cell with surplus white space and two "of " markers
LocTwo == <<" ", "o", "f", " ", " ", "a", " ", "o", "f", " ", "b", " ">>

\* the URL .../yyyy_mmdd_hhmmss_B<n>.html of instant stamp
BulletinURL(stamp, n) == [stamp |-> stamp, tail |-> <<"_B", n, ".html">>]

\* a full row of the table; the date cell shows the local minute of the event
Row(stamp, link, lat, depth, mag, loc) ==
  [cells |-> 6, link |-> link, date |-> (stamp + UtcOffset) \div Minute, lat |-> lat,
   lon |-> LonRef, depth |-> depth, mag |-> mag, loc |-> loc]

\* the documents of at most MaxRows rows over a set of rows
DocsOf(Rows) == UNION {[1..n -> Rows] : n \in 0..MaxRows}

\* ----------------------------------------------------------------- the loop
DefaultConfig ==
  [refPointLat |-> DEFAULT_REF_POINT_LAT, refPointLon |-> DEFAULT_REF_POINT_LON,
   refRadiusKm |-> DEFAULT_REF_RADIUS_KM, maxQuakeEntries |-> DEFAULT_MAX_ROWS,
   matrixConfigured |-> TRUE]

NoProbe == [op |-> "none"]

\* no postToMatrix call is in progress
NoCall == [state |-> "idle", attempt |-> 0, done |-> 0, slept |-> <<>>, err |-> FALSE]

InitLoop ==
  /\ now = Now0
  /\ cacheFile = MissingFile
  /\ postedFile = MissingFile
  /\ pc = "fetch"
  /\ latestQuakes = <<>>
  /\ lastFetchQuakes = <<>>
  /\ postedQuakes = <<>>
  /\ idx = 1
  /\ changed = <<>>
  /\ updated = <<>>
  /\ postedQuakesToSave = <<>>
  /\ previousQuake = ZeroQuake
  /\ updateExists = FALSE
  /\ sendIdx = 0
  /\ sent = <<>>
  /\ prevNew = {}
  /\ post = NoCall

Init ==
  /\ config = DefaultConfig
  /\ probe = NoProbe
  /\ InitLoop

\* lines 954-979: the page is fetched and parsed, both files are read
BeginCycle(Docs) ==
  /\ pc = "fetch"
  /\ \E doc \in Docs :
       /\ latestQuakes' = parseFirstN(doc, config.maxQuakeEntries)
       /\ pc' = IF parseFirstN(doc, config.maxQuakeEntries) = <<>> THEN "notify" ELSE "classify"
  /\ lastFetchQuakes' = readAllQuakesFromFile(cacheFile, "quakeOriginKey")
  /\ postedQuakes' = readAllQuakesFromFile(postedFile, "quakeLocationKey")
  /\ changed' = <<>>
  /\ updated' = <<>>
  /\ postedQuakesToSave' = <<>>
  /\ previousQuake' = ZeroQuake
  /\ updateExists' = FALSE
  /\ idx' = 1
  /\ sendIdx' = 0
  /\ sent' = <<>>
  /\ UNCHANGED <<config, now, cacheFile, postedFile, prevNew, probe, post>>


\* FetchError that resets the Last-Poll file
FetchErrorResetsCache ==
  /\ pc = "fetch"
  /\ pc' = "sleepError"
  /\ cacheFile' = saveAllQuakesToFile(<<>>)
  /\ UNCHANGED <<config, now, postedFile, latestQuakes, lastFetchQuakes, postedQuakes,
                 idx, changed, updated, postedQuakesToSave, previousQuake, updateExists,
                 sendIdx, sent, prevNew, probe, post>>

\* lines 954-959: fetchDocument fails, the loop sleeps 30 s and starts over
FetchError ==
  /\ pc = "fetch"
  /\ pc' = "sleepError"
  /\ UNCHANGED <<config, now, cacheFile, postedFile, latestQuakes, lastFetchQuakes,
                 postedQuakes, idx, changed, updated, postedQuakesToSave, previousQuake,
                 updateExists, sendIdx, sent, prevNew, probe, post>>

\* lines 982-1016: one iteration of the loop over latestQuakes
ClassifyQuake ==
  /\ pc = "classify"
  /\ idx <= Len(latestQuakes)
  /\ LET currentQuake == latestQuakes[idx]
     IN \E r \in ResolvePrevious(lastFetchQuakes, currentQuake) :
          /\ previousQuake' = r.previousQuake
          /\ updateExists' = r.updateExists
          /\ lastFetchQuakes' = IF r.heur THEN MapAfterPrune(lastFetchQuakes)
                                ELSE lastFetchQuakes
          /\ IF ~r.updateExists
             THEN IF IsNewQuake(postedQuakes, currentQuake)
                  THEN /\ changed' = Append(changed, currentQuake)
                       /\ postedQuakesToSave' = Append(postedQuakesToSave, currentQuake)
                       /\ UNCHANGED updated
                  ELSE UNCHANGED <<changed, updated, postedQuakesToSave>>
             ELSE IF IsUpdatedQuake(postedQuakes, currentQuake, r.previousQuake)
                  THEN /\ updated' = Append(updated, [New |-> currentQuake, Old |-> r.previousQuake])
                       /\ postedQuakesToSave' = Append(postedQuakesToSave, currentQuake)
                       /\ UNCHANGED changed
                  ELSE UNCHANGED <<changed, updated, postedQuakesToSave>>
  /\ idx' = idx + 1
  /\ pc' = IF idx = Len(latestQuakes) THEN "notify" ELSE "classify"
  /\ UNCHANGED <<config, now, cacheFile, postedFile, latestQuakes, postedQuakes,
                 sendIdx, sent, prevNew, probe, post>>

\* lines 1018-1019: nothing new, nothing updated
\* NothingDetected writing the pruned Notified Ledger all the same
NothingDetectedSavesPosted ==
  /\ pc = "notify"
  /\ Len(changed) = 0 /\ Len(updated) = 0
  /\ \E slice \in mapEqToSlice(postedQuakes) : postedFile' = saveAllQuakesToFile(slice)
  /\ pc' = "saveCache"
  /\ UNCHANGED <<config, now, cacheFile, latestQuakes, lastFetchQuakes,
                 postedQuakes, idx, changed, updated, postedQuakesToSave, previousQuake,
                 updateExists, sendIdx, sent, prevNew, probe, post>>

NothingDetected ==
  /\ pc = "notify"
  /\ Len(changed) = 0 /\ Len(updated) = 0
  /\ pc' = "saveCache"
  /\ UNCHANGED <<config, now, cacheFile, postedFile, latestQuakes, lastFetchQuakes,
                 postedQuakes, idx, changed, updated, postedQuakesToSave, previousQuake,
                 updateExists, sendIdx, sent, prevNew, probe, post>>

\* line 1022: the notified quakes read at the start, pruned and sorted, are
\* appended after the quakes of this cycle
MergePosted ==
  /\ pc = "notify"
  /\ ~(Len(changed) = 0 /\ Len(updated) = 0)
  /\ \E slice \in mapEqToSlice(postedQuakes) :
       postedQuakesToSave' = postedQuakesToSave \o slice
  /\ postedQuakes' = MapAfterPrune(postedQuakes)
  /\ sendIdx' = IF Len(changed) > 0 THEN Len(changed) ELSE Len(updated)
  /\ pc' = IF Len(changed) > 0 THEN "sendNew" ELSE "sendUpdated"
  /\ UNCHANGED <<config, now, cacheFile, postedFile, latestQuakes, lastFetchQuakes,
                 idx, changed, updated, previousQuake, updateExists, sent, prevNew,
                 probe, post>>

\* SendNew going through changed from its first entry to its last
SendNewInScrapeOrder ==
  /\ pc = "sendNew"
  /\ sendIdx >= 1
  /\ LET q == changed[Len(changed) + 1 - sendIdx]
     IN \E err \in postToMatrix(q, FALSE, q) :
          sent' = Append(sent, [quake |-> q, updated |-> FALSE, old |-> q, err |-> err])
  /\ sendIdx' = IF sendIdx > 1 THEN sendIdx - 1 ELSE Len(updated)
  /\ pc' = IF sendIdx > 1 THEN "sendNew"
           ELSE IF Len(updated) > 0 THEN "sendUpdated" ELSE "savePosted"
  /\ UNCHANGED <<config, now, cacheFile, postedFile, latestQuakes, lastFetchQuakes,
                 postedQuakes, idx, changed, updated, postedQuakesToSave, previousQuake,
                 updateExists, prevNew, probe, post>>

\* lines 1025-1031: one iteration of the loop that sends the new quakes
SendNew ==
  /\ pc = "sendNew"
  /\ sendIdx >= 1
  /\ LET q == changed[sendIdx]
     IN \E err \in postToMatrix(q, FALSE, q) :
          sent' = Append(sent, [quake |-> q, updated |-> FALSE, old |-> q, err |-> err])
  /\ sendIdx' = IF sendIdx > 1 THEN sendIdx - 1 ELSE Len(updated)
  /\ pc' = IF sendIdx > 1 THEN "sendNew"
           ELSE IF Len(updated) > 0 THEN "sendUpdated" ELSE "savePosted"
  /\ UNCHANGED <<config, now, cacheFile, postedFile, latestQuakes, lastFetchQuakes,
                 postedQuakes, idx, changed, updated, postedQuakesToSave, previousQuake,
                 updateExists, prevNew, probe, post>>

\* lines 1034-1040: one iteration of the loop that sends the updated quakes
SendUpdated ==
  /\ pc = "sendUpdated"
  /\ sendIdx >= 1
  /\ LET u == updated[sendIdx]
     IN \E err \in postToMatrix(u.New, TRUE, u.Old) :
          sent' = Append(sent, [quake |-> u.New, updated |-> TRUE, old |-> u.Old, err |-> err])
  /\ sendIdx' = sendIdx - 1
  /\ pc' = IF sendIdx > 1 THEN "sendUpdated" ELSE "savePosted"
  /\ UNCHANGED <<config, now, cacheFile, postedFile, latestQuakes, lastFetchQuakes,
                 postedQuakes, idx, changed, updated, postedQuakesToSave, previousQuake,
                 updateExists, prevNew, probe, post>>

\* line 1043
SavePosted ==
  /\ pc = "savePosted"
  /\ postedFile' = saveAllQuakesToFile(postedQuakesToSave)
  /\ pc' = "saveCache"
  /\ UNCHANGED <<config, now, cacheFile, latestQuakes, lastFetchQuakes, postedQuakes,
                 idx, changed, updated, postedQuakesToSave, previousQuake, updateExists,
                 sendIdx, sent, prevNew, probe, post>>

\* SaveCache writing the detected quakes only
SaveCacheDetectedOnly ==
  /\ pc = "saveCache"
  /\ cacheFile' = saveAllQuakesToFile(changed \o [k \in 1..Len(updated) |-> updated[k].New])
  /\ pc' = "sleep"
  /\ UNCHANGED <<config, now, postedFile, latestQuakes, lastFetchQuakes, postedQuakes,
                 idx, changed, updated, postedQuakesToSave, previousQuake, updateExists,
                 sendIdx, sent, prevNew, probe, post>>

\* line 1046
SaveCache ==
  /\ pc = "saveCache"
  /\ cacheFile' = saveAllQuakesToFile(latestQuakes)
  /\ pc' = "sleep"
  /\ UNCHANGED <<config, now, postedFile, latestQuakes, lastFetchQuakes, postedQuakes,
                 idx, changed, updated, postedQuakesToSave, previousQuake, updateExists,
                 sendIdx, sent, prevNew, probe, post>>

\* line 957: the sleep after a failed fetch is over; `continue` starts the next
\* iteration, no variable of the loop body was declared in this one
WakeAfterError ==
  /\ pc = "sleepError"
  /\ pc' = "fetch"
  /\ UNCHANGED <<config, now, cacheFile, postedFile, latestQuakes, lastFetchQuakes,
                 postedQuakes, idx, changed, updated, postedQuakesToSave, previousQuake,
                 updateExists, sendIdx, sent, prevNew, probe, post>>

\* line 1049: the sleep is over and the iteration ends; the variables declared
\* in the loop body go out of scope
Wake ==
  /\ pc = "sleep"
  /\ pc' = "fetch"
  /\ prevNew' = Range(changed)
  /\ latestQuakes' = <<>>
  /\ lastFetchQuakes' = <<>>
  /\ postedQuakes' = <<>>
  /\ idx' = 1
  /\ changed' = <<>>
  /\ updated' = <<>>
  /\ postedQuakesToSave' = <<>>
  /\ previousQuake' = ZeroQuake
  /\ updateExists' = FALSE
  /\ sendIdx' = 0
  /\ sent' = <<>>
  /\ UNCHANGED <<config, now, cacheFile, postedFile, probe, post>>

Cycle(Docs) ==
  \/ BeginCycle(Docs)
  \/ FetchError
  \/ ClassifyQuake
  \/ NothingDetected
  \/ MergePosted
  \/ SendNew
  \/ SendUpdated
  \/ SavePosted
  \/ SaveCache
  \/ WakeAfterError
  \/ Wake

\* ------------------------------------------------------------ specifications
\* Rows of one event and its revisions: the first bulletin, the same bulletin
\* with another magnitude, a second bulletin under the same and under a later
\* time stamp (same minute), and a second bulletin of an event of long ago.
RowsIdentity ==
  {Row(T0, BulletinURL(T0, "1"), LatFar, Depth10, Mag46, LocN),
   Row(T0, BulletinURL(T0, "1"), LatFar, Depth10, Mag51, LocN),
   Row(T0, BulletinURL(T0, "2"), LatFar, Depth10, Mag51, LocN),
   Row(T0 + 30, BulletinURL(T0 + 30, "2"), LatFar, Depth10, Mag51, LocN),
   Row(TOld, BulletinURL(TOld, "2"), LatFar, Depth10, Mag46, LocX)}

Next == Cycle(DocsOf(RowsIdentity))

Spec == Init /\ [][Next]_vars

\* Rows around the thresholds: a magnitude equal to the global threshold far
\* from the reference point, one equal to the local threshold at the reference
\* point, a second bulletin that downgrades the first row, a magnitude that is
\* no number, and a weak quake at the place of the second row.
RowsThreshold ==
  {Row(T0, BulletinURL(T0, "1"), LatFar, Depth10, Mag45, LocN),
   Row(T0, BulletinURL(T0, "1"), LatRef, Depth10, Mag40, LocX),
   Row(T0, BulletinURL(T0, "2"), LatFar, Depth10, Mag40, LocN),
   Row(T0, BulletinURL(T0, "1"), LatFar, Depth10, MagBad, LocN),
   Row(T0, BulletinURL(T0, "1"), LatFar, Depth10, Mag30, LocX)}

NextThreshold == Cycle(DocsOf(RowsThreshold))

SpecThreshold == Init /\ [][NextThreshold]_vars

\* The Geo-Threshold Policy applied to coordinate texts, under the default radius
\* and under a radius equal to the distance of a modelled point (REF_RADIUS_KM
\* is read from the environment by getEnvFloat).
GeoLatitudes ==
  {LatRef, LatFar, LatBad, <<>>,
   <<"1", "1", ".", "3", "0">>, <<"1", "1", ".", "3", "1">>, <<"1", "1", ".", "3", "2">>,
   <<"9", ".", "3", "3">>, <<"9", ".", "3", "4">>, <<"1", "0", ".", "3", ".", "2">>}

GeoLongitudes ==
  {LonRef, <<"1", "2", "3", ".", "9">>, <<"+", "1", "2", "3", ".", "9">>,
   <<"x">>, <<>>, <<"1", "2", "3", ".", ".">>}

GeoRadii ==
  {DEFAULT_REF_RADIUS_KM,
   distanceKm(1131, DEFAULT_REF_POINT_LON, DEFAULT_REF_POINT_LAT, DEFAULT_REF_POINT_LON)}

InitGeo ==
  /\ config \in {[DefaultConfig EXCEPT !.refRadiusKm = r] : r \in GeoRadii}
  /\ probe = NoProbe
  /\ InitLoop

ProbeThreshold ==
  /\ \E latStr \in GeoLatitudes, lonStr \in GeoLongitudes :
       probe' = [op |-> "magnitudeThresholdFor", lat |-> latStr, lon |-> lonStr,
                 out |-> magnitudeThresholdFor(latStr, lonStr)]
  /\ UNCHANGED <<config, now, cacheFile, postedFile, pc, latestQuakes, lastFetchQuakes,
                 postedQuakes, idx, changed, updated, postedQuakesToSave, previousQuake,
                 updateExists, sendIdx, sent, prevNew, post>>

NextGeo == ProbeThreshold

SpecGeo == InitGeo /\ [][NextGeo]_vars

\* The three variables of the Geo-Threshold Policy as the process finds them in
\* its environment: not set, not a number, or a decimal number (negative, zero
\* or positive).  The longitudes that are used are that of the default point.
EnvLatitudes ==
  {<<>>, <<"x">>, <<"-", "0", ".", "1", "0">>, <<"0">>, <<"1", "0", ".", "0", "0">>, LatRef}

EnvLongitudes ==
  {<<>>, <<"x">>, <<"-", "1", "2", "3", ".", "9", "0">>, <<"0">>, LonRef}

EnvRadii == {<<>>, <<"x">>, <<"-", "1">>, <<"0">>, <<"5", "0">>}

Environments ==
  [REF_POINT_LAT : EnvLatitudes, REF_POINT_LON : EnvLongitudes, REF_RADIUS_KM : EnvRadii]

\* lines 943-945: the package variables are initialised from the environment
ReadEnvironment(env) ==
  [DefaultConfig EXCEPT
     !.refPointLat = getEnvFloat(env.REF_POINT_LAT, DEFAULT_REF_POINT_LAT),
     !.refPointLon = getEnvFloat(env.REF_POINT_LON, DEFAULT_REF_POINT_LON),
     !.refRadiusKm = getEnvFloat(env.REF_RADIUS_KM, DEFAULT_REF_RADIUS_KM)]

InitEnv ==
  /\ \E env \in Environments :
       /\ config = ReadEnvironment(env)
       /\ probe = [op |-> "getEnvFloat", env |-> env]
  /\ InitLoop

\* magnitudeThresholdFor called in a process started with environment probe.env
ProbeThresholdEnv ==
  /\ probe.op = "getEnvFloat"
  /\ \E latStr \in GeoLatitudes \cup {<<"0", ".", "8", "5">>}, lonStr \in GeoLongitudes :
       probe' = [op |-> "magnitudeThresholdFor", env |-> probe.env, lat |-> latStr,
                 lon |-> lonStr, out |-> magnitudeThresholdFor(latStr, lonStr)]
  /\ UNCHANGED <<loopVars, post>>

NextEnv == ProbeThresholdEnv

SpecEnv == InitEnv /\ [][NextEnv]_vars

\* ------------------------------------------------- postToMatrix, step by step
\* what client.Do returns: a network error, or a response with a status code
Responses ==
  {[err |-> TRUE, StatusCode |-> 0]} \cup {[err |-> FALSE, StatusCode |-> c] : c \in {200, 299, 300}}

\* PostBegin without the test of the credentials
PostBeginUnchecked ==
  /\ pc \in {"sendNew", "sendUpdated"}
  /\ sendIdx >= 1
  /\ post.state = "idle"
  /\ post' = [NoCall EXCEPT !.state = "attempt", !.attempt = 1]
  /\ UNCHANGED <<loopVars, probe>>

\* lines 1327-1355: the credentials are tested, the request is built
PostBegin ==
  /\ pc \in {"sendNew", "sendUpdated"}
  /\ sendIdx >= 1
  /\ post.state = "idle"
  /\ post' = IF ~config.matrixConfigured
             THEN [NoCall EXCEPT !.state = "returned", !.err = TRUE]
             ELSE [NoCall EXCEPT !.state = "attempt", !.attempt = 1]
  /\ UNCHANGED <<loopVars, probe>>

\* lines 1357-1369: one client.Do; a status below 300 returns nil
PostAttempt ==
  /\ post.state = "attempt"
  /\ \E resp \in Responses :
       post' = IF ~resp.err /\ resp.StatusCode < 300
               THEN [post EXCEPT !.state = "returned", !.done = @ + 1, !.err = FALSE]
               ELSE [post EXCEPT !.state = "sleep", !.done = @ + 1]
  /\ UNCHANGED <<loopVars, probe>>

\* PostSleep with one more turn of the loop
PostSleepOneMore ==
  /\ post.state = "sleep"
  /\ post' = [post EXCEPT !.slept = Append(@, post.attempt * post.attempt),
                          !.attempt = @ + 1,
                          !.state = IF post.attempt + 1 <= SendAttempts + 1 THEN "attempt"
                                    ELSE "returned",
                          !.err = post.attempt + 1 > SendAttempts + 1]
  /\ UNCHANGED <<loopVars, probe>>

\* lines 1370, 1356, 1373-1376: the sleep of attempt*attempt seconds, attempt++,
\* and the loop test; after the last attempt the error is returned
PostSleep ==
  /\ post.state = "sleep"
  /\ post' = [post EXCEPT !.slept = Append(@, post.attempt * post.attempt),
                          !.attempt = @ + 1,
                          !.state = IF post.attempt + 1 <= SendAttempts THEN "attempt"
                                    ELSE "returned",
                          !.err = post.attempt + 1 > SendAttempts]
  /\ UNCHANGED <<loopVars, probe>>

\* lines 1028-1030, 1037-1039: the call is back in main, which logs an error
\* and goes on with the loop
PostReturn ==
  /\ post.state = "returned"
  /\ pc \in {"sendNew", "sendUpdated"}
  /\ IF pc = "sendNew"
     THEN /\ sent' = Append(sent, [quake |-> changed[sendIdx], updated |-> FALSE,
                                   old |-> changed[sendIdx], err |-> post.err])
          /\ sendIdx' = IF sendIdx > 1 THEN sendIdx - 1 ELSE Len(updated)
          /\ pc' = IF sendIdx > 1 THEN "sendNew"
                   ELSE IF Len(updated) > 0 THEN "sendUpdated" ELSE "savePosted"
     ELSE /\ sent' = Append(sent, [quake |-> updated[sendIdx].New, updated |-> TRUE,
                                   old |-> updated[sendIdx].Old, err |-> post.err])
          /\ sendIdx' = sendIdx - 1
          /\ pc' = IF sendIdx > 1 THEN "sendUpdated" ELSE "savePosted"
  /\ post' = NoCall
  /\ UNCHANGED <<config, now, cacheFile, postedFile, latestQuakes, lastFetchQuakes,
                 postedQuakes, idx, changed, updated, postedQuakesToSave, previousQuake,
                 updateExists, prevNew, probe>>

\* The poll loop with the calls of postToMatrix taken step by step, with and
\* without the Matrix credentials, over a first bulletin and its revision.
RowsNotify ==
  {Row(T0, BulletinURL(T0, "1"), LatFar, Depth10, Mag46, LocN),
   Row(T0, BulletinURL(T0, "2"), LatFar, Depth10, Mag51, LocN),
   Row(T0, BulletinURL(T0, "1"), LatFar, Depth10, Mag30, LocX)}

InitNotify ==
  /\ config \in {[DefaultConfig EXCEPT !.matrixConfigured = b] : b \in BOOLEAN}
  /\ probe = NoProbe
  /\ InitLoop

NextNotify ==
  \/ BeginCycle(DocsOf(RowsNotify))
  \/ FetchError
  \/ ClassifyQuake
  \/ NothingDetected
  \/ MergePosted
  \/ PostBegin
  \/ PostAttempt
  \/ PostSleep
  \/ PostReturn
  \/ SavePosted
  \/ SaveCache
  \/ WakeAfterError
  \/ Wake

SpecNotify == InitNotify /\ [][NextNotify]_vars

\* main is one sequential process that keeps running: the step its position
\* allows is eventually taken (client.Do returns within its 30 s timeout, every
\* sleep ends, the file writes return)
FairSpecNotify ==
  /\ SpecNotify
  /\ WF_vars(PostBegin)
  /\ WF_vars(PostAttempt)
  /\ WF_vars(PostSleep)
  /\ WF_vars(PostReturn)
  /\ WF_vars(SavePosted)
  /\ WF_vars(SaveCache)
  /\ WF_vars(WakeAfterError)

\* Rows for the order of the sends: three events and a second bulletin of the
\* first, in tables of up to MaxRows + 1 different rows, so that one cycle can
\* hold two quakes of one group and one of the other.
RowsOrder ==
  {Row(T0, BulletinURL(T0, "1"), LatFar, Depth10, Mag46, LocN),
   Row(T0, BulletinURL(T0, "2"), LatFar, Depth10, Mag51, LocN),
   Row(T0, BulletinURL(T0, "1"), LatFar, Depth10, Mag46, LocX),
   Row(T0 + Minute, BulletinURL(T0 + Minute, "1"), LatFar, Depth10, Mag51, LocD)}

DocsOrder ==
  {doc \in UNION {[1..n -> RowsOrder] : n \in 0..(MaxRows + 1)} :
     \A i, j \in 1..Len(doc) : doc[i] = doc[j] => i = j}

NextOrder == Cycle(DocsOrder)

SpecOrder == Init /\ [][NextOrder]_vars

\* The poll loop with the call of fetchDocument taken step by step.  client.Get
\* (line 1086) is called on a client without Timeout and a Transport without
\* any timeout (lines 1084-1085): the call ends when the server answers or the
\* connection fails, and not otherwise.
\* line 954: client.Get is called; the server will answer or fail ("get"), or
\* accepts the connection and never answers ("getUnanswered")
FetchRequest ==
  /\ pc = "fetch"
  /\ pc' \in {"get", "getUnanswered"}
  /\ UNCHANGED <<config, now, cacheFile, postedFile, latestQuakes, lastFetchQuakes,
                 postedQuakes, idx, changed, updated, postedQuakesToSave, previousQuake,
                 updateExists, sendIdx, sent, prevNew, probe, post>>

\* lines 1086-1098 and 961-979: the server answered with status 200 and a page
FetchResponse(Docs) ==
  /\ pc = "get"
  /\ \E doc \in Docs :
       /\ latestQuakes' = parseFirstN(doc, config.maxQuakeEntries)
       /\ pc' = IF parseFirstN(doc, config.maxQuakeEntries) = <<>> THEN "notify" ELSE "classify"
  /\ lastFetchQuakes' = readAllQuakesFromFile(cacheFile, "quakeOriginKey")
  /\ postedQuakes' = readAllQuakesFromFile(postedFile, "quakeLocationKey")
  /\ changed' = <<>>
  /\ updated' = <<>>
  /\ postedQuakesToSave' = <<>>
  /\ previousQuake' = ZeroQuake
  /\ updateExists' = FALSE
  /\ idx' = 1
  /\ sendIdx' = 0
  /\ sent' = <<>>
  /\ UNCHANGED <<config, now, cacheFile, postedFile, prevNew, probe, post>>

\* lines 1087-1097 and 955-959: the connection failed, the status is not 200 or
\* the page does not parse
FetchFailure ==
  /\ pc = "get"
  /\ pc' = "sleepError"
  /\ UNCHANGED <<config, now, cacheFile, postedFile, latestQuakes, lastFetchQuakes,
                 postedQuakes, idx, changed, updated, postedQuakesToSave, previousQuake,
                 updateExists, sendIdx, sent, prevNew, probe, post>>

NextFetch ==
  \/ FetchRequest
  \/ FetchResponse(DocsOf(RowsNotify))
  \/ FetchFailure
  \/ ClassifyQuake
  \/ NothingDetected
  \/ MergePosted
  \/ SendNew
  \/ SendUpdated
  \/ SavePosted
  \/ SaveCache
  \/ WakeAfterError
  \/ Wake

SpecFetch == Init /\ [][NextFetch]_vars

\* weak fairness of ClassifyQuake, which is enabled exactly when pc = "classify"
FairClassify == []<>(pc # "classify") \/ []<><<ClassifyQuake>>_vars

\* main is one sequential process: a step that is possible is taken.  A call
\* in progress ends, with an answer or an error, when the server answers or
\* the connection fails; postToMatrix ends by its 30 s timeout (line 1351).
FairSpecFetch ==
  /\ SpecFetch
  /\ WF_vars(FetchRequest)
  /\ WF_vars(FetchFailure)
  /\ FairClassify
  /\ WF_vars(NothingDetected)
  /\ WF_vars(MergePosted)
  /\ WF_vars(SendNew)
  /\ WF_vars(SendUpdated)
  /\ WF_vars(SavePosted)
  /\ WF_vars(SaveCache)
  /\ WF_vars(WakeAfterError)
  /\ WF_vars(Wake)

\* Rows with and without a bulletin link: a quake announced with bulletin 1, the
\* same instant with no link, a row a minute later with no link, a bulletin 2
\* thirty seconds later, and a quake of long ago.
RowsBulletin ==
  {Row(T0, BulletinURL(T0, "1"), LatFar, Depth10, Mag46, LocN),
   Row(T0, NoBulletin, LatFar, Depth10, Mag51, LocN),
   Row(T0 + Minute, NoBulletin, LatFar, Depth10, Mag51, LocN),
   Row(T0 + 30, BulletinURL(T0 + 30, "2"), LatFar, Depth10, Mag51, LocN),
   Row(TOld, BulletinURL(TOld, "1"), LatFar, Depth10, Mag46, LocX)}

NextBulletin == Cycle(DocsOf(RowsBulletin))

SpecBulletin == Init /\ [][NextBulletin]_vars

\* Rows of quakes below the threshold and their revisions: a weak quake, the
\* same bulletin and a second bulletin with a magnitude above the threshold,
\* and the same for a quake of long ago.
RowsInsignificant ==
  {Row(T0, BulletinURL(T0, "1"), LatFar, Depth10, Mag30, LocN),
   Row(T0, BulletinURL(T0, "1"), LatFar, Depth10, Mag51, LocN),
   Row(T0, BulletinURL(T0, "2"), LatFar, Depth10, Mag51, LocN),
   Row(TOld, BulletinURL(TOld, "1"), LatFar, Depth10, Mag30, LocX),
   Row(TOld, BulletinURL(TOld, "2"), LatFar, Depth10, Mag51, LocX)}

NextInsignificant == Cycle(DocsOf(RowsInsignificant))

SpecInsignificant == Init /\ [][NextInsignificant]_vars

\* The poll loop with files that are removed or damaged between two polls.  A
\* damaged file is one os.ReadFile cannot read or json.Unmarshal rejects; its
\* quakes are what was decoded before the error.
FileFates(file) == {file, MissingFile, [ok |-> FALSE, quakes |-> file.quakes]}

DamageFiles ==
  /\ pc = "fetch"
  /\ cacheFile' \in FileFates(cacheFile)
  /\ postedFile' \in FileFates(postedFile)
  /\ <<cacheFile', postedFile'>> # <<cacheFile, postedFile>>
  /\ UNCHANGED <<config, now, pc, latestQuakes, lastFetchQuakes, postedQuakes, idx,
                 changed, updated, postedQuakesToSave, previousQuake, updateExists,
                 sendIdx, sent, prevNew, probe, post>>

NextFiles ==
  \/ Cycle(DocsOf(RowsNotify))
  \/ DamageFiles

SpecFiles == Init /\ [][NextFiles]_vars

\* The helpers applied once to arguments of bounded sets: timestamps around T0 and two
\* texts time.Parse rejects, tolerances from -1 to MaxDelta minutes, records over
\* these timestamps.
PureTimes ==
  {T0, T0 + 30, T0 + 59, T0 + Minute, T0 + Minute + 1, T0 + 3 * Minute,
   T0 + 3 * Minute + 1, TOld, EmptyText, BadDateText}

PureDeltas == (0 - 1)..MaxDelta

\* a URL with bulletin number n and no date group
PlainBulletin(n) == [stamp |-> NoStamp, tail |-> <<"_B", n, ".html">>]

PureQuakes ==
  {[DateTime |-> dt, Latitude |-> LatFar, Longitude |-> LonRef, Depth |-> Depth10,
    Magnitude |-> Mag46, Location |-> loc, Origin |-> extractOrigin(loc), Bulletin |-> b] :
     dt \in {T0, T0 + 30, T0 + 3 * Minute, TOld, EmptyText, BadDateText},
     loc \in {LocN, LocX},
     b \in {NoBulletin, PlainBulletin("1"), PlainBulletin("2")}}

\* the instants time.Now() is drawn from: a day after T0, and the instant two
\* months after TOld with its successor
PureNows == {Now0, TOld + TwoMonths, TOld + TwoMonths + 1}

InitPure ==
  /\ config = DefaultConfig
  /\ probe = NoProbe
  /\ now \in PureNows
  /\ cacheFile = MissingFile
  /\ postedFile = MissingFile
  /\ pc = "fetch"
  /\ latestQuakes = <<>>
  /\ lastFetchQuakes = <<>>
  /\ postedQuakes = <<>>
  /\ idx = 1
  /\ changed = <<>>
  /\ updated = <<>>
  /\ postedQuakesToSave = <<>>
  /\ previousQuake = ZeroQuake
  /\ updateExists = FALSE
  /\ sendIdx = 0
  /\ sent = <<>>
  /\ prevNew = {}
  /\ post = NoCall

\* records over two texts for each field; the second latitude, longitude and
\* magnitude texts denote the same numbers as the first
DiffQuakes ==
  [DateTime : {T0, T0 + 30},
   Latitude : {LatFar, <<"1", "5", ".", "0">>},
   Longitude : {LonRef, <<"1", "2", "3", ".", "9">>},
   Depth : {Depth10, Depth20},
   Magnitude : {Mag46, <<"4", ".", "6", "0">>},
   Location : {LocN, LocS},
   Origin : {<<"a", "b", "c">>, <<"a", "b", "d">>},
   Bulletin : {PlainBulletin("1"), NoBulletin}]

\* ledger entries: two of long ago a second apart, two of instant T0, one whose
\* timestamp does not parse
RetentionQuakes ==
  {[DateTime |-> dt, Latitude |-> LatFar, Longitude |-> LonRef, Depth |-> Depth10,
    Magnitude |-> Mag46, Location |-> loc, Origin |-> extractOrigin(loc),
    Bulletin |-> PlainBulletin("1")] :
     dt \in {TOld, TOld + 1, T0, BadDateText}, loc \in {LocN}}
  \cup
  {[DateTime |-> T0, Latitude |-> LatFar, Longitude |-> LonRef, Depth |-> Depth10,
    Magnitude |-> Mag46, Location |-> LocX, Origin |-> extractOrigin(LocX),
    Bulletin |-> PlainBulletin("1")]}

\* the map that holds the quakes of S under their fine keys
LedgerOf(S) ==
  [k \in {quakeLocationKey(q) : q \in S} |-> CHOOSE q \in S : quakeLocationKey(q) = k]

ProbeMapEqToSlice ==
  /\ probe = NoProbe
  /\ \E S \in SUBSET RetentionQuakes :
       \E s \in mapEqToSlice(LedgerOf(S)) :
         probe' = [op |-> "mapEqToSlice", m |-> LedgerOf(S), out |-> s,
                   after |-> MapAfterPrune(LedgerOf(S))]
  /\ UNCHANGED <<loopVars, post>>

ProbeQuakeChanged ==
  /\ probe = NoProbe
  /\ \E a \in DiffQuakes, b \in DiffQuakes :
       probe' = [op |-> "quakeChanged", a |-> a, b |-> b, out |-> quakeChanged(a, b)]
  /\ UNCHANGED <<loopVars, post>>

ProbeTimeMatch ==
  /\ probe = NoProbe
  /\ \E t1 \in PureTimes, t2 \in PureTimes, delta \in PureDeltas :
       probe' = [op |-> "sameDateAndTimeHMWithDelta", t1 |-> t1, t2 |-> t2, delta |-> delta,
                 out |-> sameDateAndTimeHMWithDelta(t1, t2, delta)]
  /\ UNCHANGED <<loopVars, post>>

\* the three users of the matcher, on a pair of records
ProbeMatchers ==
  /\ probe = NoProbe
  /\ \E currentQuake \in PureQuakes, pastQ \in PureQuakes :
       probe' = [op |-> "matchers", currentQuake |-> currentQuake, pastQ |-> pastQ,
                 same |-> sameDateAndTimeHM(currentQuake.DateTime, pastQ.DateTime),
                 revised |-> isRevisedQuake(currentQuake, pastQ),
                 known |-> isKnownBulletin(currentQuake, pastQ),
                 near |-> filterQuakesByDateTime(<<pastQ>>, currentQuake.DateTime)]
  /\ UNCHANGED <<loopVars, post>>

NextPure ==
  \/ ProbeTimeMatch
  \/ ProbeMatchers
  \/ ProbeQuakeChanged
  \/ ProbeMapEqToSlice

SpecPure == InitPure /\ [][NextPure]_vars

\* The identity resolution applied once to a Last-Poll map and a record.  The
\* map holds at most MaxRows entries, as it is read from the file that holds
\* the batch of the poll before; its entries lie at the instant T0, a minute and
\* four minutes later, or carry a timestamp time.Parse rejects; their origins
\* are "abc", "abd", "abcxy" and "xyz".
Loc60 == <<"N", " ", "o", "f", " ", "a", "b", "c", "x", "y">>

ResolveCandidates ==
  {[DateTime |-> dt, Latitude |-> LatFar, Longitude |-> LonRef, Depth |-> Depth10,
    Magnitude |-> Mag46, Location |-> loc, Origin |-> extractOrigin(loc), Bulletin |-> b] :
     dt \in {T0, T0 + Minute, T0 + 4 * Minute, BadDateText},
     loc \in {LocN, LocD, Loc60, LocX},
     b \in {NoBulletin, PlainBulletin("1"), PlainBulletin("2")}}

\* the records resolved: origin "abc", at T0 and thirty seconds later
ResolveRecords ==
  {[DateTime |-> dt, Latitude |-> LatFar, Longitude |-> LonRef, Depth |-> Depth10,
    Magnitude |-> Mag51, Location |-> LocN, Origin |-> extractOrigin(LocN), Bulletin |-> b] :
     dt \in {T0, T0 + 30},
     b \in {NoBulletin, PlainBulletin("1"), PlainBulletin("2"), PlainBulletin("3")}}

\* the maps readAllQuakesFromFile builds with quakeOriginKey
LastPollMaps ==
  {[k \in {quakeOriginKey(q) : q \in S} |-> CHOOSE q \in S : quakeOriginKey(q) = k] :
     S \in {S \in UNION {{Range(f) : f \in [1..n -> ResolveCandidates]} : n \in 0..MaxRows} :
              \A p, q \in S : quakeOriginKey(p) = quakeOriginKey(q) => p = q}}

\* texts given to the Fuzzy Address Matcher
SimilarityTexts ==
  {<<>>, <<" ">>, <<",", " ", "-">>, <<"a", "b", "c">>, <<"A", "b", "c">>, <<"a", "b", "d">>,
   <<"a", "b", "c", "x", "y">>, <<"B", "l", "k", " ", "5">>, <<"b", "l", "o", "c", "k", " ", "5">>,
   <<"S", "t", ".">>, <<"x", "y", "z">>}

ProbeSimilarity ==
  /\ probe = NoProbe
  /\ \E a \in SimilarityTexts, b \in SimilarityTexts :
       probe' = [op |-> "AddressSimilarity", a |-> a, b |-> b, out |-> AddressSimilarity(a, b)]
  /\ UNCHANGED <<loopVars, post>>

ProbeHeuristics ==
  /\ probe = NoProbe
  /\ \E lastFetch \in LastPollMaps, currentQuake \in ResolveRecords :
       \E r \in determinePastQuakeThroughHeuristics(lastFetch, currentQuake) :
         probe' = [op |-> "determinePastQuakeThroughHeuristics", lastFetch |-> lastFetch,
                   currentQuake |-> currentQuake, out |-> r]
  /\ UNCHANGED <<loopVars, post>>

\* lines 984-991 run twice on the same map and record
ProbeResolveTwice ==
  /\ probe = NoProbe
  /\ \E lastFetch \in LastPollMaps, currentQuake \in ResolveRecords :
       \E first \in ResolvePrevious(lastFetch, currentQuake),
          second \in ResolvePrevious(lastFetch, currentQuake) :
         probe' = [op |-> "ResolvePrevious", lastFetch |-> lastFetch,
                   currentQuake |-> currentQuake, first |-> first, second |-> second]
  /\ UNCHANGED <<loopVars, post>>

InitResolve == InitPure /\ now = Now0

NextResolve ==
  \/ ProbeSimilarity
  \/ ProbeHeuristics
  \/ ProbeResolveTwice

SpecResolve == InitResolve /\ [][NextResolve]_vars

\* parseFirstN applied once to a table of at most MaxRows + 1 rows, some with
\* fewer than six cells, and a limit n of 1 to MaxRows + 1 (getEnvInt keeps the
\* limit positive).
RowsScrape ==
  {Row(T0, BulletinURL(T0, "1"), LatFar, Depth10, Mag46, LocN),
   Row(T0 + 30, BulletinURL(T0 + 30, "2"), LatFar, Depth10, Mag51, LocN),
   Row(T0 + Minute, NoBulletin, LatFar, Depth10, Mag46, LocX),
   Row(T0 + Minute, NoBulletin, LatFar, Depth10, Mag46, LocTwo),
   [Row(T0, BulletinURL(T0, "1"), LatFar, Depth10, Mag46, LocN) EXCEPT !.cells = 5],
   [Row(TOld, NoBulletin, LatFar, Depth10, Mag30, LocX) EXCEPT !.cells = 0]}

ProbeParseFirstN ==
  /\ probe = NoProbe
  /\ \E len \in 0..(MaxRows + 1), n \in 1..(MaxRows + 1) :
       \E doc \in [1..len -> RowsScrape] :
         probe' = [op |-> "parseFirstN", doc |-> doc, n |-> n, out |-> parseFirstN(doc, n)]
  /\ UNCHANGED <<loopVars, post>>

NextScrape == ProbeParseFirstN

SpecScrape == InitPure /\ [][NextScrape]_vars

\* getBulletinNumber applied once to a reference whose end is any run of at most
\* MaxTailLen of the pieces a bulletin URL ends in.
MaxTailLen == 4

TailTokens == {"_B", "0", "1", "2", "9", "F", ".html", "x"}

BulletinReferences ==
  {[stamp |-> NoStamp, tail |-> t] : t \in UNION {[1..n -> TailTokens] : n \in 0..MaxTailLen}}

ProbeBulletinNumber ==
  /\ probe = NoProbe
  /\ \E url \in BulletinReferences :
       probe' = [op |-> "getBulletinNumber", url |-> url, out |-> getBulletinNumber(url)]
  /\ UNCHANGED <<loopVars, post>>

NextNumber == ProbeBulletinNumber

SpecNumber == InitPure /\ [][NextNumber]_vars

\* ------------------------------------------------------------------- claims
\* the quake the loop over latestQuakes is about to handle
Current == latestQuakes[idx]

\* the quake the loop over latestQuakes handled last
Handled == latestQuakes[idx - 1]

AfterHandling == pc \in {"classify", "notify"} /\ idx > 1

\* the Notified Ledger as a cycle loads it from the file
NotifiedLedger == readAllQuakesFromFile(postedFile, "quakeLocationKey")

\* the fine key of q is a key of the Notified Ledger
InNotifiedFile(q) == <<q.DateTime, q.Location>> \in DOMAIN NotifiedLedger

\* an entry of the Notified Ledger has the instant and the bulletin of q
BulletinInNotifiedFile(q) ==
  \E e \in Range(NotifiedLedger) :
    /\ q.DateTime >= 0
    /\ e.DateTime = q.DateTime
    /\ e.Bulletin = q.Bulletin

MeetsThreshold(q) ==
  /\ ParseFloat(q.Magnitude).ok
  /\ ParseFloat(q.Magnitude).val >= magnitudeThresholdFor(q.Latitude, q.Longitude)

\* C1: a scraped quake without a resolved previous record is appended to
\* changed and to the list to save if and only if its fine key is not in the
\* Notified Ledger, its magnitude is a number and that number is at least the
\* threshold of its coordinates; otherwise both lists stay as they are.
C1_NewIffUnnotifiedAndSignificant ==
  [][(pc = "classify" /\ ~updateExists') =>
       IF ~InNotifiedFile(Current) /\ MeetsThreshold(Current)
       THEN /\ changed' = Append(changed, Current)
            /\ postedQuakesToSave' = Append(postedQuakesToSave, Current)
       ELSE /\ changed' = changed
            /\ postedQuakesToSave' = postedQuakesToSave]_vars

\* C1 witness: a quake whose magnitude equals its threshold was handled without a
\* previous record and is the last entry of changed
C1_Witness ==
  /\ AfterHandling
  /\ ~updateExists
  /\ ParseFloat(Handled.Magnitude).ok
  /\ ParseFloat(Handled.Magnitude).val =
       magnitudeThresholdFor(Handled.Latitude, Handled.Longitude)
  /\ changed # <<>>
  /\ changed[Len(changed)] = Handled

\* every postToMatrix call of the cycle is for an entry of changed or of updated
SentOnlyDetected ==
  \A k \in 1..Len(sent) :
    IF sent[k].updated
    THEN [New |-> sent[k].quake, Old |-> sent[k].old] \in Range(updated)
    ELSE sent[k].quake \in Range(changed)

\* C7: a scraped quake without a resolved previous record, not in the Notified
\* Ledger, whose magnitude is below its threshold or is no number, is added to
\* no list (not changed, not updated, not the list to save), and the calls of
\* postToMatrix are only for entries of changed and updated.
C7_InsignificantIsDropped ==
  [][/\ (pc = "classify" /\ ~updateExists' /\ ~InNotifiedFile(Current)
          /\ ~MeetsThreshold(Current))
        => /\ changed' = changed
           /\ updated' = updated
           /\ postedQuakesToSave' = postedQuakesToSave
           /\ sent' = sent
     /\ SentOnlyDetected']_vars

\* C7 witness: a quake whose magnitude is no number was handled without a
\* previous record and is in no list
C7_Witness ==
  /\ AfterHandling
  /\ ~updateExists
  /\ ~InNotifiedFile(Handled)
  /\ ~ParseFloat(Handled.Magnitude).ok
  /\ Handled \notin Range(changed)
  /\ Handled \notin Range(postedQuakesToSave)

MagnitudeOrZero(q) ==
  IF ParseFloat(q.Magnitude).ok THEN ParseFloat(q.Magnitude).val ELSE 0

\* C9: when a previous record is resolved, the two differ and no Notified Ledger
\* entry has the quake's instant and bulletin, the quake is appended to updated
\* (with the previous record) if and only if its magnitude or the previous
\* record's, 0 when it is no number, is at least the threshold of its own
\* coordinates.
C9_RevisedIffEitherSignificant ==
  [][(pc = "classify" /\ updateExists' /\ quakeChanged(previousQuake', Current)
        /\ ~BulletinInNotifiedFile(Current))
       => IF \/ MagnitudeOrZero(Current) >=
                   magnitudeThresholdFor(Current.Latitude, Current.Longitude)
             \/ MagnitudeOrZero(previousQuake') >=
                   magnitudeThresholdFor(previousQuake'.Latitude, previousQuake'.Longitude)
          THEN /\ updated' = Append(updated, [New |-> Current, Old |-> previousQuake'])
               /\ postedQuakesToSave' = Append(postedQuakesToSave, Current)
          ELSE /\ updated' = updated
               /\ postedQuakesToSave' = postedQuakesToSave]_vars

\* C9 witness: a quake downgraded below its threshold is the last entry of updated
C9_Witness ==
  /\ AfterHandling
  /\ updateExists
  /\ updated # <<>>
  /\ updated[Len(updated)] = [New |-> Handled, Old |-> previousQuake]
  /\ MagnitudeOrZero(Handled) < magnitudeThresholdFor(Handled.Latitude, Handled.Longitude)
  /\ MagnitudeOrZero(previousQuake) >=
       magnitudeThresholdFor(previousQuake.Latitude, previousQuake.Longitude)

\* C10: the threshold is the local one when both coordinates are numbers and the
\* distance to the reference point is at most the radius, the global one when the
\* distance is larger or a coordinate is no number.
C10_ThresholdByDistance ==
  probe.op = "magnitudeThresholdFor" =>
    LET lat == ParseFloat(probe.lat)
        lon == ParseFloat(probe.lon)
    IN probe.out =
         IF /\ lat.ok /\ lon.ok
            /\ distanceKm(lat.val, lon.val, config.refPointLat, config.refPointLon)
                 <= config.refRadiusKm
         THEN LOCAL_MAG_THRESH
         ELSE GLOBAL_MAG_THRESH

\* C10 witness: a point whose distance equals the radius gets the local threshold
C10_Witness ==
  /\ probe.op = "magnitudeThresholdFor"
  /\ ParseFloat(probe.lat).ok
  /\ ParseFloat(probe.lon).ok
  /\ distanceKm(ParseFloat(probe.lat).val, ParseFloat(probe.lon).val,
                config.refPointLat, config.refPointLon) = config.refRadiusKm
  /\ probe.out = LOCAL_MAG_THRESH

BeforeSavePosted == pc \in {"classify", "notify", "sendNew", "sendUpdated", "savePosted"}

Detected == Range(changed) \cup {updated[k].New : k \in 1..Len(updated)}

\* C2: a record of the batch that the Last-Poll file holds with all fields equal
\* is neither in changed nor in updated.
C2_UnchangedIsDuplicate ==
  (cacheFile.ok /\ (BeforeSavePosted \/ pc = "saveCache")) =>
    \A k \in 1..Len(latestQuakes) :
      latestQuakes[k] \in Range(cacheFile.quakes) => latestQuakes[k] \notin Detected

UpdatedWereSent ==
  \A k \in 1..Len(updated) : \E j \in 1..Len(sent) :
    /\ sent[j].updated
    /\ sent[j].quake = updated[k].New
    /\ sent[j].old = updated[k].Old

C4_AnnouncedBulletinNotRevisedAgain ==
  (BeforeSavePosted /\ postedFile.ok) =>
    \A k \in 1..Len(updated) : \A j \in 1..Len(postedFile.quakes) :
      ~(/\ postedFile.quakes[j].DateTime >= 0
        /\ ~Stale(postedFile.quakes[j])
        /\ postedFile.quakes[j].DateTime = updated[k].New.DateTime
        /\ postedFile.quakes[j].Bulletin = updated[k].New.Bulletin)

\* C5: at the end of a cycle every record of changed and updated, whose fine key
\* no other record detected in the cycle shares, is the entry the Notified Ledger
\* loads under its fine key.
C5_DetectedIsStoredUnderItsKey ==
  pc = "sleep" =>
    \A q \in Detected :
      (\A q2 \in Detected : quakeLocationKey(q2) = quakeLocationKey(q) => q2 = q)
      => /\ quakeLocationKey(q) \in DOMAIN NotifiedLedger
         /\ NotifiedLedger[quakeLocationKey(q)] = q

\* C8: for a record with bulletin number 2 and no exact match, every Last-Poll
\* entry with bulletin number 1, the same origin and a timestamp of the same
\* minute but other seconds passes the isRevisedQuake test of step 2a.
C8_SameMinuteIsRevisedQuake ==
  (pc = "classify" /\ idx <= Len(latestQuakes)) =>
    \A p \in Range(lastFetchQuakes) :
      (/\ quakeOriginKey(Current) \notin DOMAIN lastFetchQuakes
       /\ getBulletinNumber(Current.Bulletin) = [num |-> 2, ok |-> TRUE]
       /\ getBulletinNumber(p.Bulletin) = [num |-> 1, ok |-> TRUE]
       /\ p.Origin = Current.Origin
       /\ ParseTime(p.DateTime).ok /\ ParseTime(Current.DateTime).ok
       /\ p.DateTime \div Minute = Current.DateTime \div Minute
       /\ p.DateTime # Current.DateTime)
      => isRevisedQuake(Current, p)

\* C11: sameDateAndTimeHMWithDelta is false whenever one of the two texts does
\* not parse, for every tolerance and also for two equal texts; isRevisedQuake,
\* isKnownBulletin and filterQuakesByDateTime then match no such record.
C11_UnparseableNeverMatches ==
  /\ (probe.op = "sameDateAndTimeHMWithDelta"
      /\ (~ParseTime(probe.t1).ok \/ ~ParseTime(probe.t2).ok)) => ~probe.out
  /\ (probe.op = "matchers"
      /\ (~ParseTime(probe.currentQuake.DateTime).ok \/ ~ParseTime(probe.pastQ.DateTime).ok))
     => (~probe.revised /\ ~probe.known /\ probe.near = <<>>)

\* C11 witness: the matcher was applied to two equal texts that do not parse
\* under a positive tolerance, and answered false
C11_Witness ==
  /\ probe.op = "sameDateAndTimeHMWithDelta"
  /\ probe.t1 = BadDateText /\ probe.t2 = BadDateText /\ probe.delta > 0
  /\ ~probe.out

C13_SameMinuteBelowSixtySeconds ==
  (probe.op = "matchers"
   /\ ParseTime(probe.currentQuake.DateTime).ok /\ ParseTime(probe.pastQ.DateTime).ok
   /\ Abs(probe.currentQuake.DateTime - probe.pastQ.DateTime) < Minute)
  => probe.same

\* the fields of a Quake that quakeChanged is about, and all of them
TrackedFields == {"Magnitude", "Depth", "Location", "Latitude", "Longitude", "Bulletin"}

QuakeFields == TrackedFields \cup {"DateTime", "Origin"}

\* C14: quakeChanged(r, r) is false; it is true for two records that differ in
\* exactly one of the six tracked fields, by their texts, and false for two
\* records that differ in DateTime or Origin only.
C14_DiffTracksSixFields ==
  probe.op = "quakeChanged" =>
    LET differing == {f \in QuakeFields : probe.a[f] # probe.b[f]}
    IN /\ probe.a = probe.b => ~probe.out
       /\ (Cardinality(differing) = 1 /\ differing \subseteq TrackedFields) => probe.out
       /\ differing \subseteq {"DateTime", "Origin"} => ~probe.out

\* C14 witness: two records whose only difference is the magnitude text, 4.6
\* and 4.60, are reported changed
C14_Witness ==
  /\ probe.op = "quakeChanged"
  /\ {f \in QuakeFields : probe.a[f] # probe.b[f]} = {"Magnitude"}
  /\ parseMag(probe.a.Magnitude) = parseMag(probe.b.Magnitude)
  /\ probe.out

\* C15: whatever the ledger and the order of the map, no entry of the slice
\* mapEqToSlice returns has a timestamp earlier than now minus two months; the
\* entries at or after that instant are all in it.
C15_NoStaleEntryInSlice ==
  probe.op = "mapEqToSlice" =>
    /\ \A k \in 1..Len(probe.out) :
         /\ probe.out[k].DateTime >= 0
         /\ ~(probe.out[k].DateTime < now - TwoMonths)
    /\ \A q \in Range(probe.m) :
         (q.DateTime >= 0 /\ q.DateTime >= now - TwoMonths) => q \in Range(probe.out)

\* C15 witness: the ledger held an entry older than two months and an entry of
\* exactly that age; the slice holds the second and not the first
C15_Witness ==
  /\ probe.op = "mapEqToSlice"
  /\ \E q \in Range(probe.m) :
       /\ q.DateTime >= 0 /\ q.DateTime < now - TwoMonths
       /\ q \notin Range(probe.out)
  /\ \E q \in Range(probe.out) : q.DateTime = now - TwoMonths

\* C16: handling a record whose bulletin reference has no sequence number and
\* that has no exact match resolves no previous record, and the records that
\* follow it in the batch keep the Last-Poll entry their exact lookup finds.
C16_NoBulletinNoHeuristicMatch ==
  [][(/\ pc = "classify"
      /\ ~getBulletinNumber(Current.Bulletin).ok
      /\ quakeOriginKey(Current) \notin DOMAIN lastFetchQuakes)
     => (/\ ~updateExists'
         /\ \A k \in (idx + 1)..Len(latestQuakes) :
              quakeOriginKey(latestQuakes[k]) \in DOMAIN lastFetchQuakes
              => /\ quakeOriginKey(latestQuakes[k]) \in DOMAIN lastFetchQuakes'
                 /\ lastFetchQuakes'[quakeOriginKey(latestQuakes[k])]
                      = lastFetchQuakes[quakeOriginKey(latestQuakes[k])])]_vars

\* the call in progress: the attempts made, the waits taken, the result
PostCallInvariant ==
  /\ post.done <= SendAttempts
  /\ post.slept = [i \in 1..Len(post.slept) |-> i * i]
  /\ post.state = "attempt" => (post.done = post.attempt - 1 /\ Len(post.slept) = post.done)
  /\ post.state = "sleep" => (post.done = post.attempt /\ Len(post.slept) = post.done - 1)
  /\ (post.state = "returned" /\ ~post.err) =>
       (post.done >= 1 /\ Len(post.slept) = post.done - 1 /\ config.matrixConfigured)
  /\ (post.state = "returned" /\ post.err /\ config.matrixConfigured) =>
       (post.done = SendAttempts /\ Len(post.slept) = SendAttempts)

\* C17: a call of postToMatrix makes at most 5 attempts, returns nil at the
\* first attempt answered with a status below 300, waits i*i seconds after the
\* failed attempt i and returns an error after the 5th failure; every call
\* returns, and the loop then reaches the end of the cycle, both files written.
C17_BoundedRetries ==
  /\ []PostCallInvariant
  /\ (post.state \in {"attempt", "sleep"}) ~> (post.state = "returned")
  /\ (post.state # "idle") ~> (pc = "sleep" /\ post.state = "idle")

\* C17 witness: a call returns its error after five failed attempts and the
\* waits of 1, 4, 9, 16 and 25 seconds
C17_Witness ==
  /\ post.state = "returned"
  /\ post.err
  /\ post.done = 5
  /\ post.slept = <<1, 4, 9, 16, 25>>

\* C18: the step of a fetch error sends nothing and leaves both files, both
\* maps and the batch as they were; the only step after it is the start of a
\* new iteration, which is eventually taken.
C18_FetchErrorSkipsTheCycle ==
  /\ [][(pc = "fetch" /\ pc' = "sleepError") =>
          UNCHANGED <<cacheFile, postedFile, latestQuakes, lastFetchQuakes, postedQuakes,
                      sent, post>>]_vars
  /\ [][pc = "sleepError" => (pc' = "fetch" /\ UNCHANGED <<cacheFile, postedFile, sent, post>>)]_vars
  /\ (pc = "sleepError") ~> (pc = "fetch")

\* C18 witness: a fetch fails when both files hold quakes of earlier cycles
C18_Witness ==
  /\ pc = "sleepError"
  /\ cacheFile.ok /\ cacheFile.quakes # <<>>
  /\ postedFile.ok /\ postedFile.quakes # <<>>
  /\ sent = <<>>

\* C20: without the Matrix credentials no call of postToMatrix makes an attempt
\* or waits, every call returns an error, every quake of the batch is handled,
\* and the cycle ends with both files written as with the credentials.
C20_MissingCredentials ==
  ~config.matrixConfigured =>
    /\ post.done = 0 /\ post.slept = <<>> /\ post.state \in {"idle", "returned"}
    /\ post.state = "returned" => post.err
    /\ \A k \in 1..Len(sent) : sent[k].err
    /\ pc \in {"notify", "sendNew", "sendUpdated", "savePosted", "saveCache", "sleep"}
         => idx = Len(latestQuakes) + 1 \/ latestQuakes = <<>>
    /\ pc = "sleep" =>
         /\ cacheFile = [ok |-> TRUE, quakes |-> latestQuakes]
         /\ Detected # {} =>
              /\ postedFile = [ok |-> TRUE, quakes |-> postedQuakesToSave]
              /\ Detected \subseteq Range(postedFile.quakes)
              /\ Len(sent) = Len(changed) + Len(updated)

\* C20 witness: without the credentials a cycle ends in which a new quake was
\* detected, its call returned an error and both files were written
C20_Witness ==
  /\ ~config.matrixConfigured
  /\ pc = "sleep"
  /\ Len(changed) > 0
  /\ Len(sent) > 0 /\ sent[1].err
  /\ changed[1] \in Range(postedFile.quakes)
  /\ cacheFile.quakes = latestQuakes

\* C19: a cycle that finds a ledger file missing, unreadable or not valid JSON
\* starts with an empty map for it, whatever the file holds, and goes on: the
\* batch is classified against the empty map.
C19_DamagedFileIsEmptyLedger ==
  /\ [][(pc = "fetch" /\ pc' \in {"classify", "notify"}) =>
          /\ ~cacheFile.ok => lastFetchQuakes' = <<>>
          /\ ~postedFile.ok => postedQuakes' = <<>>]_vars
  /\ []((pc \in {"classify", "notify", "sendNew", "sendUpdated", "savePosted"}
         /\ ~postedFile.ok) => postedQuakes = <<>>)
  /\ []((pc \in {"classify", "notify", "sendNew", "sendUpdated", "savePosted", "saveCache"}
         /\ ~cacheFile.ok) => lastFetchQuakes = <<>>)

\* C19 witness: a cycle that found a damaged Last-Poll file holding quakes has
\* classified a batch and is about to write the file anew
C19_Witness ==
  /\ pc = "saveCache"
  /\ ~cacheFile.ok /\ cacheFile.quakes # <<>>
  /\ latestQuakes # <<>>
  /\ lastFetchQuakes = <<>>

\* the record and the Last-Poll map the resolver was applied to
Resolved == probe.currentQuake

Ledger == Range(probe.lastFetch)

\* both timestamps parse and lie at most three minutes apart
WithinThreeMinutes(p, r) ==
  /\ p.DateTime >= 0
  /\ r.DateTime >= 0
  /\ p.DateTime - r.DateTime <= 180
  /\ r.DateTime - p.DateTime <= 180

\* the bulletin sequence number of a record, 0 when its reference has none
SequenceNumber(q) == getBulletinNumber(q.Bulletin).num

\* C21: similarity(a, a) = 100 for every text a, and a Last-Poll candidate
\* within the window whose origin equals the origin of the record and whose
\* sequence number is lower makes the fallback scan return a previous record.
C21_SimilarityIsReflexive ==
  /\ (probe.op = "AddressSimilarity" /\ probe.a = probe.b) => probe.out = 100
  /\ probe.op = "determinePastQuakeThroughHeuristics" =>
       ((\E p \in Ledger : /\ p.Origin = Resolved.Origin
                           /\ WithinThreeMinutes(p, Resolved)
                           /\ SequenceNumber(p) < SequenceNumber(Resolved))
        => probe.out.updateExists)

\* C21 witness: the scan returned a candidate of another instant whose origin
\* is the origin of the record
C21_Witness ==
  /\ probe.op = "determinePastQuakeThroughHeuristics"
  /\ probe.out.updateExists
  /\ probe.out.previousQuake.Origin = Resolved.Origin
  /\ probe.out.previousQuake.DateTime # Resolved.DateTime
  /\ AddressSimilarity(Resolved.Origin, probe.out.previousQuake.Origin) = 100

\* the positions of the rows parseFirstN turns into records: those among the
\* first n rows that have six cells or more
Examined == {i \in 1..Len(probe.doc) : i <= probe.n /\ probe.doc[i].cells >= 6}

\* C22: parseFirstN(doc, n) returns the records of the rows with at least six
\* cells among the first n rows, in the order of the rows: at most n records.
C22_FirstRowsInOrder ==
  probe.op = "parseFirstN" =>
    /\ Len(probe.out) <= probe.n
    /\ Len(probe.out) = Cardinality(Examined)
    /\ \A k \in 1..Len(probe.out) :
         \E i \in Examined : /\ Cardinality({j \in Examined : j <= i}) = k
                             /\ probe.out[k] = RowToQuake(probe.doc[i])

\* C22 witness: a table longer than n with a short row among its first n rows
\* and a full row after them; the short row and the late row give no record
C22_Witness ==
  /\ probe.op = "parseFirstN"
  /\ Len(probe.doc) > probe.n
  /\ \E i \in 1..probe.n : probe.doc[i].cells < 6
  /\ \E i \in (probe.n + 1)..Len(probe.doc) : probe.doc[i].cells >= 6
  /\ Len(probe.out) = probe.n - 1
  /\ Len(probe.out) >= 1

\* C23: a record whose coarse key is in the Last-Poll map is resolved to the
\* entry under that key, whatever the two bulletin numbers, and the map is left
\* as it was (the heuristics, which prune it, do not run).
C23_ExactLookupDecides ==
  [][(/\ pc = "classify"
      /\ quakeOriginKey(Current) \in DOMAIN lastFetchQuakes)
     => (/\ updateExists'
         /\ previousQuake' = lastFetchQuakes[quakeOriginKey(Current)]
         /\ lastFetchQuakes' = lastFetchQuakes)]_vars

\* C23 witness: the record handled last was resolved to the entry under its
\* key, which has a higher bulletin number, while the map holds an entry older
\* than two months
C23_Witness ==
  /\ AfterHandling
  /\ updateExists
  /\ quakeOriginKey(Handled) \in DOMAIN lastFetchQuakes
  /\ previousQuake = lastFetchQuakes[quakeOriginKey(Handled)]
  /\ SequenceNumber(previousQuake) > SequenceNumber(Handled)
  /\ SequenceNumber(Handled) # 1
  /\ \E k \in DOMAIN lastFetchQuakes : Stale(lastFetchQuakes[k])

\* C24: the heuristics run only for a record whose bulletin sequence number is
\* greater than 1 (a step that prunes the Last-Poll map is a step of such a
\* record), and a record with sequence number 1 whose coarse key is not in the
\* map is resolved to no previous record and is not classified Revised.
C24_HeuristicsOnlyAboveOne ==
  [][pc = "classify"
     => /\ lastFetchQuakes' # lastFetchQuakes => SequenceNumber(Current) > 1
        /\ (/\ SequenceNumber(Current) = 1
            /\ quakeOriginKey(Current) \notin DOMAIN lastFetchQuakes)
           => (~updateExists' /\ updated' = updated)]_vars

HasSequenceNumber(q) == getBulletinNumber(q.Bulletin).ok

\* C26: a previous record p returned for a record r is an entry of the
\* Last-Poll map, both timestamps parse and are at most 3 minutes apart, the
\* similarity of the origins is at least 60, and p carries a bulletin sequence
\* number lower than that of r; a similar candidate whose number is not lower
\* does not keep the scan from returning a later candidate that qualifies.
C26_FallbackAcceptsOnlyLowerNumbered ==
  probe.op = "determinePastQuakeThroughHeuristics" =>
    /\ probe.out.updateExists =>
         /\ probe.out.previousQuake \in Ledger
         /\ WithinThreeMinutes(probe.out.previousQuake, Resolved)
         /\ AddressSimilarity(Resolved.Origin, probe.out.previousQuake.Origin) >= 60
         /\ HasSequenceNumber(probe.out.previousQuake)
         /\ SequenceNumber(probe.out.previousQuake) < SequenceNumber(Resolved)
    /\ (\E q \in Ledger : /\ WithinThreeMinutes(q, Resolved)
                          /\ AddressSimilarity(Resolved.Origin, q.Origin) >= 60
                          /\ HasSequenceNumber(q)
                          /\ SequenceNumber(q) < SequenceNumber(Resolved))
       => probe.out.updateExists

\* a Last-Poll entry the fallback scan accepts for the record: within the
\* window, similar enough, with a lower bulletin number
Acceptable(q) ==
  /\ WithinThreeMinutes(q, Resolved)
  /\ AddressSimilarity(Resolved.Origin, q.Origin) >= 60
  /\ SequenceNumber(q) < SequenceNumber(Resolved)

\* C27: when Last-Poll entries are acceptable, the entry returned is an
\* acceptable one of the latest timestamp among them, whatever the similarity
\* of the older ones.
C27_NewestAcceptableWins ==
  (probe.op = "determinePastQuakeThroughHeuristics" /\ \E q \in Ledger : Acceptable(q)) =>
    /\ probe.out.updateExists
    /\ probe.out.previousQuake \in Ledger
    /\ Acceptable(probe.out.previousQuake)
    /\ \A q \in Ledger : Acceptable(q) => q.DateTime <= probe.out.previousQuake.DateTime

\* C27 witness: the entry returned is newer and less similar than another
\* acceptable entry
C27_Witness ==
  /\ probe.op = "determinePastQuakeThroughHeuristics"
  /\ probe.out.updateExists
  /\ \E q \in Ledger :
       /\ Acceptable(q)
       /\ q.DateTime < probe.out.previousQuake.DateTime
       /\ AddressSimilarity(Resolved.Origin, q.Origin)
            > AddressSimilarity(Resolved.Origin, probe.out.previousQuake.Origin)

\* C28: two runs of the identity resolution on the same record and the same
\* Last-Poll map give the same previous record, or both give none.
C28_ResolutionIsDeterministic ==
  probe.op = "ResolvePrevious" =>
    /\ probe.first.updateExists = probe.second.updateExists
    /\ probe.first.previousQuake = probe.second.previousQuake

\* C29: an entry of the map given to mapEqToSlice is missing from the slice
\* only if its timestamp is earlier than now minus two months; every other
\* entry is in the slice exactly once, and the slice is ordered newest first.
C29_OnlyStaleEntriesRemoved ==
  probe.op = "mapEqToSlice" =>
    /\ \A q \in Range(probe.m) :
         \/ (q.DateTime >= 0 /\ q.DateTime < now - TwoMonths /\ q \notin Range(probe.out))
         \/ Cardinality({k \in 1..Len(probe.out) : probe.out[k] = q}) = 1
    /\ \A i, j \in 1..Len(probe.out) :
         i < j => probe.out[i].DateTime >= probe.out[j].DateTime

\* e is a record the Last-Poll file holds from the poll before, below its
\* threshold and never announced, and r, the record being classified, has its
\* timestamp and origin, another magnitude that meets the threshold, and a
\* bulletin reference the Notified Ledger does not hold
InsignificantBefore(e, r) ==
  /\ cacheFile.ok
  /\ e \in Range(cacheFile.quakes)
  /\ ~MeetsThreshold(e)
  /\ e \notin Range(postedFile.quakes)
  /\ quakeOriginKey(e) = quakeOriginKey(r)
  /\ e.Magnitude # r.Magnitude
  /\ MeetsThreshold(r)
  /\ ~BulletinInNotifiedFile(r)

\* C30: a record that was below its threshold in the poll before and comes
\* back with the same timestamp and origin, another magnitude that meets the
\* threshold and a bulletin reference not in the Notified Ledger is appended to
\* updated with its snapshot of the poll before as old record, not to changed.
C30_InsignificantThenRevised ==
  [][pc = "classify" =>
       \A e \in Range(cacheFile.quakes) :
         InsignificantBefore(e, Current) =>
           /\ updated' = Append(updated, [New |-> Current, Old |-> e])
           /\ changed' = changed]_vars

\* C31: every poll cycle that has started its fetch eventually completes (the
\* loop reaches the sleep that ends the cycle) or is skipped (the loop reaches
\* the sleep after a fetch error), also when the server never answers.
C31_EveryCycleEnds ==
  (pc \in {"get", "getUnanswered"}) ~> (pc \in {"sleep", "sleepError"})

\* o is s without its leading and trailing spaces
TrimmedFrom(o, s) ==
  /\ o = <<>> \/ (o[1] # " " /\ o[Len(o)] # " ")
  /\ \E a \in 0..Len(s) :
       /\ a + Len(o) <= Len(s)
       /\ SubSeq(s, a + 1, a + Len(o)) = o
       /\ \A i \in (1..a) \cup ((a + Len(o) + 1)..Len(s)) : s[i] = " "

\* the positions of location where the marker "of " starts
OfMarks(location) ==
  {i \in 1..(Len(location) - 2) : SubSeq(location, i, i + 2) = <<"o", "f", " ">>}

\* C32: every record of parseFirstN has as origin the text of its location
\* after the first "of ", trimmed, and the location itself when it holds no
\* "of "; two records of one result with equal location have equal origin, and
\* with equal fine key equal coarse key.
C32_OriginFromLocation ==
  probe.op = "parseFirstN" =>
    /\ \A k \in 1..Len(probe.out) :
         LET q == probe.out[k]
             marks == OfMarks(q.Location)
         IN /\ marks = {} => q.Origin = q.Location
            /\ marks # {} =>
                 \E i \in marks :
                   /\ \A j \in marks : i <= j
                   /\ TrimmedFrom(q.Origin, SubSeq(q.Location, i + 3, Len(q.Location)))
    /\ \A k, l \in 1..Len(probe.out) :
         /\ probe.out[k].Location = probe.out[l].Location
              => probe.out[k].Origin = probe.out[l].Origin
         /\ quakeLocationKey(probe.out[k]) = quakeLocationKey(probe.out[l])
              => quakeOriginKey(probe.out[k]) = quakeOriginKey(probe.out[l])

\* C32 witness: one result holds a record whose location has two "of " markers,
\* twice, and a record whose location has none
C32_Witness ==
  /\ probe.op = "parseFirstN"
  /\ \E k, l, m \in 1..Len(probe.out) :
       /\ k # l
       /\ Cardinality(OfMarks(probe.out[k].Location)) = 2
       /\ probe.out[k].Origin = <<"a", " ", "o", "f", " ", "b">>
       /\ quakeLocationKey(probe.out[k]) = quakeLocationKey(probe.out[l])
       /\ OfMarks(probe.out[m].Location) = {}
       /\ probe.out[m].Origin = probe.out[m].Location

\* the value of an environment text that is a decimal number, else the default
Supplied(val, defaultVal) ==
  IF val # <<>> /\ ParseFloat(val).ok THEN ParseFloat(val).val ELSE defaultVal

\* C33: the reference latitude, longitude and radius the policy reads are the
\* values of the environment wherever these are decimal numbers, the defaults
\* only where a variable is not set or is not a number; the threshold of a
\* quake is the one of the supplied point and radius.
C33_SuppliedValueIsUsed ==
  (probe.op = "magnitudeThresholdFor" /\ "env" \in DOMAIN probe) =>
    LET lat0 == Supplied(probe.env.REF_POINT_LAT, DEFAULT_REF_POINT_LAT)
        lon0 == Supplied(probe.env.REF_POINT_LON, DEFAULT_REF_POINT_LON)
        radius == Supplied(probe.env.REF_RADIUS_KM, DEFAULT_REF_RADIUS_KM)
    IN /\ config.refPointLat = lat0
       /\ config.refPointLon = lon0
       /\ config.refRadiusKm = radius
       /\ (/\ ParseFloat(probe.lat).ok
           /\ ParseFloat(probe.lon).ok
           /\ ParseFloat(probe.lon).val = lon0)
          => probe.out = IF distanceKm(ParseFloat(probe.lat).val, ParseFloat(probe.lon).val,
                                       lat0, lon0) <= radius
                         THEN LOCAL_MAG_THRESH ELSE GLOBAL_MAG_THRESH

\* the reference ends in _B, k decimal digits, F if final, and .html
EndsInNumber(t, k, final) ==
  LET n == Len(t)
      f == IF final THEN 1 ELSE 0
  IN /\ n >= k + f + 2
     /\ t[n] = ".html"
     /\ final => t[n - 1] = "F"
     /\ \A i \in (n - f - k)..(n - f - 1) : t[i] \in Digits
     /\ t[n - f - k - 1] = "_B"

\* C34: getBulletinNumber returns (n, true) for a reference that ends in
\* _B<n>.html or _B<n>F.html, n being the decimal number written there, and
\* (0, false) for every other reference.
C34_DecimalSequenceNumber ==
  probe.op = "getBulletinNumber" =>
    LET t == probe.url.tail
        n == Len(t)
        forms == {kf \in (1..n) \X BOOLEAN : EndsInNumber(t, kf[1], kf[2])}
    IN IF forms = {} THEN probe.out = [num |-> 0, ok |-> FALSE]
       ELSE \A kf \in forms :
              LET f == IF kf[2] THEN 1 ELSE 0
              IN probe.out = [num |-> DigitsVal(SubSeq(t, n - f - kf[1], n - f - 1)),
                              ok |-> TRUE]

\* the Last-Poll map as main loaded it when the cycle began
LoadedLastPoll == readAllQuakesFromFile(cacheFile, "quakeOriginKey")

\* C35: handling a record of the batch leaves the Last-Poll map as it is, and
\* the previous record it resolves is one that the map as loaded at the start of
\* the cycle gives for that record alone.
C35_ResolvingLeavesLastPoll ==
  [][pc = "classify"
     => (/\ lastFetchQuakes' = lastFetchQuakes
         /\ \E r \in ResolvePrevious(LoadedLastPoll, Current) :
              /\ updateExists' = r.updateExists
              /\ previousQuake' = r.previousQuake)]_vars

\* C36: at the end of a cycle every record classified New or Revised is in the
\* Notified Ledger file and in the Last-Poll file, whether its postToMatrix call
\* returned an error or not; a cycle makes at most one call per classification;
\* and a record of the batch that both files hold with all fields equal, as a
\* record classified earlier and scraped again unchanged is, is not classified
\* New or Revised again.
C36_RecordedAndSentOnce ==
  /\ pc = "sleep" => \A q \in Detected : /\ q \in Range(postedFile.quakes)
                                         /\ q \in Range(cacheFile.quakes)
  /\ Len(sent) <= Len(changed) + Len(updated)
  /\ (cacheFile.ok /\ postedFile.ok /\ BeforeSavePosted) =>
       \A k \in 1..Len(latestQuakes) :
         (/\ latestQuakes[k] \in Range(postedFile.quakes)
          /\ latestQuakes[k] \in Range(cacheFile.quakes))
         => latestQuakes[k] \notin Detected

\* the record of call i was scraped after the record of call j
ScrapedAfter(i, j) ==
  \A a, b \in 1..Len(latestQuakes) :
    (latestQuakes[a] = sent[i].quake /\ latestQuakes[b] = sent[j].quake) => a > b

\* C37: among the postToMatrix calls of a cycle no call for a Revised record
\* comes before a call for a New record, two calls of one group are in reverse
\* scrape order, and when the sends are over every New and every Revised record
\* has had its call, whichever calls returned an error.
C37_NewFirstInReverseOrder ==
  /\ \A i, j \in 1..Len(sent) :
       i < j => /\ ~(sent[i].updated /\ ~sent[j].updated)
                /\ sent[i].updated = sent[j].updated => ScrapedAfter(i, j)
  /\ pc = "savePosted" =>
       /\ Len(sent) = Len(changed) + Len(updated)
       /\ \A q \in Range(changed) : \E k \in 1..Len(sent) : ~sent[k].updated /\ sent[k].quake = q
       /\ UpdatedWereSent

\* C37 witness: two New records and a Revised one were sent, the first call
\* returned an error
C37_Witness ==
  /\ pc = "savePosted"
  /\ Len(changed) = 2
  /\ Len(updated) = 1
  /\ changed[1] # changed[2]
  /\ Len(sent) = 3
  /\ sent[1].err
  /\ sent[1].quake = changed[2]
  /\ sent[3].updated

C39_LostCacheDoesNotRealert ==
  (BeforeSavePosted /\ ~cacheFile.ok /\ postedFile.ok) =>
    \A k \in 1..Len(latestQuakes) :
      InNotifiedFile(latestQuakes[k]) => latestQuakes[k] \notin Detected

\* C39 witness: the Last-Poll file was lost, the batch is classified, and a
\* record of it that meets its threshold has its fine key in the Notified
\* Ledger, under which the ledger holds another bulletin of the event
C39_Witness ==
  /\ pc = "notify"
  /\ ~cacheFile.ok
  /\ postedFile.ok
  /\ \E k \in 1..Len(latestQuakes) :
       /\ InNotifiedFile(latestQuakes[k])
       /\ MeetsThreshold(latestQuakes[k])
       /\ NotifiedLedger[quakeLocationKey(latestQuakes[k])].Bulletin # latestQuakes[k].Bulletin
       /\ latestQuakes[k] \notin Detected
====
